---- MODULE Spec2Model ----
(***************************************************************************)
(* MinWrite (script.js): the session-statistics ledger (the Dexie          *)
(* transaction updateAllStatsTransaction, registerSprintResult, the        *)
(* new-session and streak-reset handlers) and the sprint manager           *)
(* (createSprintManager), as a state machine.                              *)
(*                                                                         *)
(* The durable store is the Dexie table db.content.  Requests on it are    *)
(* served one at a time; a 'rw' transaction holds the table from its first *)
(* request until it commits or aborts, its puts become visible at commit   *)
(* and are discarded at abort.  Every storage request may fail.            *)
(***************************************************************************)
EXTENDS Integers, Sequences, FiniteSets, TLC

\* ---------------------------------------------------------------- bounds
FirstDay == 19781          \* local day number (days since 1970-01-01) of 2024-02-28
MaxDays == 2               \* the clock ranges over FirstDay .. FirstDay + MaxDays
MaxWords == 3              \* the editor holds 0 .. MaxWords words
MaxBursts == 1             \* typing bursts ended in one run
MaxSessions == 1           \* new sessions confirmed in one run
MaxSprintCount == 2        \* sprints counted and being registered, together
StepMinutes == 10          \* granularity of the sprint clock, in minutes
BurstMs == 90000           \* length of a typing burst, in milliseconds
MaxShown == 2              \* completion feedbacks counted; the count stops there
MaxLoads == 1              \* times the app is closed and opened again in one run
MaxToasts == 1             \* save toasts counted; the count stops there
MaxText == 3               \* characters of a text given to countWords
MaxInputs == 3             \* input events of the timed editor
MaxTicks == 3              \* steps of the clock of the timed editor
DebounceStep == 8          \* ms the clock advances by, about the 16 ms debounce
BurstStep == 1500          \* ms the clock advances by, about the 3000 ms burst timer
SaveStep == 500            \* ms the clock advances by, about the 1000 ms autosave

\* ------------------------------------------------------- program constants
MsPerMinute == 60000
TYPING_BURST_THRESHOLD_MS == 3000
AUTOSAVE_INTERVAL_MS == 1000
DebounceMs == 16
TOAST_INTERVAL_MS == 600000

LastDay == FirstDay + MaxDays
Days == FirstDay .. LastDay
SprintMinutes == {0, 15}

NULL == <<>>
Some(v) == <<v>>
Val(o) == o[1]
Max(a, b) == IF a >= b THEN a ELSE b

\* ------------------------------------------------------------------ dates
\* The calendar date of local day number z, as the Date getters give it.
CivilFromDays(z) ==
  LET s == z + 719468
      era == s \div 146097
      doe == s - era * 146097
      yoe == (doe - doe \div 1460 + doe \div 36524 - doe \div 146096) \div 365
      doy == doe - (365 * yoe + yoe \div 4 - yoe \div 100)
      mp == (5 * doy + 2) \div 153
      d == doy - (153 * mp + 2) \div 5 + 1
      m == IF mp < 10 THEN mp + 3 ELSE mp - 9
      y == yoe + era * 400 + (IF m <= 2 THEN 1 ELSE 0)
  IN  [y |-> y, m |-> m, d |-> d]

\* getLocalDateStamp(): "YYYY-MM-DD" of the local day, as <<YYYY, MM, DD>>.
getLocalDateStamp(z) ==
  LET c == CivilFromDays(z) IN <<c.y, c.m, c.d>>

\* new Date(x).getTime() / 86400000: a date-only stamp parses as UTC midnight
\* of that date, null as the epoch, so the time is a whole number of days
\* (kept in days: the milliseconds exceed the integers of TLC).
DateParse(x) ==
  IF x = NULL THEN 0
  ELSE LET y0 == x[1]  m == x[2]  d == x[3]
           y == IF m <= 2 THEN y0 - 1 ELSE y0
           era == y \div 400
           yoe == y - era * 400
           mp == IF m > 2 THEN m - 3 ELSE m + 9
           doy == (153 * mp + 2) \div 5 + d - 1
           doe == yoe * 365 + yoe \div 4 - yoe \div 100 + doy
       IN  era * 146097 + doe - 719468

\* new Date().toDateString(): "Www Mmm DD YYYY", as <<weekday, month, day, year>>.
toDateString(z) ==
  LET c == CivilFromDays(z) IN <<(z + 4) % 7, c.m, c.d, c.y>>

Stamps == {getLocalDateStamp(z) : z \in Days}

\* The local day whose stamp is x.
DayOf(x) == CHOOSE z \in Days : getLocalDateStamp(z) = x

\* ------------------------------------------------------------------ state
VARIABLES
  now,              \* the device clock: the current local day number
  words,            \* countWords(editor.value)
  peakWordCount,    \* appState.peakWordCount
  lastSyncedWords,  \* appState.lastSyncedWords
  statsTimer,       \* the timeout of debouncedStatsUpdate is pending
  typing,           \* appState.typing: date, totalTime, burst in progress
  sessionStats,     \* db.content 'wt:sessionStats': NULL or Some(record)
  streakData,       \* db.content 'wt:streakData'
  typingTime,       \* db.content 'wt:typingTime'
  pending,          \* updateAllStatsTransaction calls waiting for the table
  tx,               \* the running stats transaction: NULL or Some(record)
  ns,               \* the running new-session handler: NULL or Some(record)
  state,            \* the sprint manager's private state
  regs,             \* registerSprintResult calls in flight
  critical,         \* errorHandler.critical(err, 'statsTransaction') has run
  nBursts,          \* typing bursts ended so far
  nSessions,        \* new sessions confirmed so far
  nLoads,           \* times the app was opened again so far
  strays,           \* countdowns the manager dropped while they were running
  pillFinished,     \* the sprint pill has the class 'finished'
  nShown,           \* calls of showSprintComplete so far, up to MaxShown
  saved,            \* db.content 'wt:text', as the word count of the text
  lastSavedAt,      \* appState.lastSavedAt: 0, or the local day of Date.now()
  lastToastAt,      \* appState.lastToastAt: 0, or the local day of Date.now()
  nToasts,          \* calls of showSaveToast so far, up to MaxToasts
  gainDays,         \* history kept by TxCommitLogged: the days with a committed gain
  text,             \* editor.value, as a sequence of characters
  counted,          \* the result of countWords(editor.value), NULL before the call
  call,             \* the call of start() or reset() that is running, with its position
  clock,            \* Date.now(), in milliseconds
  startTimestamp,   \* appState.typing.startTimestamp: the start of the burst
  burstTimer,       \* appState.typing.burstTimer: when it fires
  statsTimeout,     \* the timeout of debouncedStatsUpdate: when it fires
  savePut,          \* the text throttledSave is putting (saveInProgress), or NULL
  run,              \* history: the current run of input events and its stats calls
  popover           \* the sprint popover: "closed", or the options it is open with

vars == <<now, words, peakWordCount, lastSyncedWords, statsTimer, typing,
          sessionStats, streakData, typingTime, pending, tx, ns, state, regs,
          critical, nBursts, nSessions, nLoads, strays, pillFinished, nShown,
          saved, lastSavedAt, lastToastAt, nToasts, gainDays, text, counted, call,
          clock, startTimestamp, burstTimer, statsTimeout, savePut, run, popover>>

appVars == <<words, peakWordCount, lastSyncedWords, statsTimer, typing>>
storeVars == <<sessionStats, streakData, typingTime>>
sprintVars == <<state, regs>>
countVars == <<nBursts, nSessions, nLoads>>
editorVars == <<text, counted>>
timeVars == <<clock, startTimestamp, burstTimer, statsTimeout, savePut, run>>
pillVars == <<strays, pillFinished, nShown>>
saveVars == <<saved, lastSavedAt, lastToastAt, nToasts>>

\* The zeroed records the code substitutes for an absent one.
ZeroSession(todayStamp) ==
  [date |-> todayStamp, words |-> 0, minutes |-> 0, sprints |-> 0, bestSprint |-> 0]
ZeroStreak == [count |-> 0, record |-> 0, lastDate |-> NULL]

\* Date.now() when the app is loaded (appState.startTime), in milliseconds.
StartTime == 1000000

\* No input event yet: no run of events, no stats call in it.
NoRun == [inputs |-> 0, lastInputAt |-> NULL, lastRaiseAt |-> NULL,
          runCalls |-> 0, raiseCalls |-> 0]

IdleState ==
  [tock |-> NULL, status |-> "idle", durationMs |-> 0, startWords |-> 0,
   wordsGained |-> 0]

InitState ==
  /\ now = FirstDay
  /\ words = 0
  /\ peakWordCount = 0
  /\ lastSyncedWords = 0
  /\ statsTimer = FALSE
  /\ typing = [date |-> toDateString(FirstDay), totalTime |-> 0, burst |-> FALSE]
  /\ sessionStats = NULL
  /\ streakData = NULL
  /\ typingTime = NULL
  /\ pending = <<>>
  /\ tx = NULL
  /\ ns = NULL
  /\ state = IdleState
  /\ regs = <<>>
  /\ critical = FALSE
  /\ nBursts = 0
  /\ nSessions = 0
  /\ nLoads = 0
  /\ strays = 0
  /\ pillFinished = FALSE
  /\ nShown = 0
  /\ saved = NULL
  /\ lastSavedAt = 0
  /\ lastToastAt = 0
  /\ nToasts = 0
  /\ gainDays = {}
  /\ popover = "closed"
  /\ call = NULL
  /\ clock = StartTime
  /\ startTimestamp = NULL
  /\ burstTimer = NULL
  /\ statsTimeout = NULL
  /\ savePut = NULL
  /\ run = NoRun

Init ==
  /\ InitState
  /\ text = <<>>
  /\ counted = NULL

\* ------------------------------------------------------------- the clock
\* The local day advances (by one day or by more while the app stays open).
DayPassesUntil(last) ==
  /\ \E d \in Days : d > now /\ d <= last /\ now' = d
  /\ UNCHANGED <<appVars, storeVars, pending, tx, ns, sprintVars, pillVars, critical, saveVars, gainDays, popover, editorVars, timeVars, call, countVars>>

DayPasses == DayPassesUntil(LastDay)

\* The device clock or time zone is set back to an earlier local day.
ClockSetBack ==
  /\ \E d \in Days : d < now /\ now' = d
  /\ UNCHANGED <<appVars, storeVars, pending, tx, ns, sprintVars, pillVars, critical, saveVars, gainDays, popover, editorVars, timeVars, call, countVars>>

\* ------------------------------------------------------------- the store
\* StoreIdle with requests served while a transaction holds the table.
StoreAlwaysIdle == TRUE

\* A request outside the stats transaction is served only while no 'rw'
\* transaction holds db.content.
StoreIdle == tx = NULL

\* ------------------------------------------------- the stats transaction
\* NextStreak without the test for a day already credited.
NextStreakEveryCall(streak, wordsGained, todayStamp) ==
  LET currentStreak == IF streak = NULL THEN ZeroStreak ELSE Val(streak)
      diff == DateParse(todayStamp) - DateParse(currentStreak.lastDate)
      count == IF diff = 1 THEN currentStreak.count + 1 ELSE 1
  IN  IF wordsGained > 0
      THEN Some([count |-> count,
                 record |-> Max(currentStreak.record, count),
                 lastDate |-> todayStamp])
      ELSE NULL

\* NextStreak with the record set to the count instead of their maximum.
NextStreakNoMax(streak, wordsGained, todayStamp) ==
  LET currentStreak == IF streak = NULL THEN ZeroStreak ELSE Val(streak)
      diff == DateParse(todayStamp) - DateParse(currentStreak.lastDate)
      count == IF diff = 1 THEN currentStreak.count + 1 ELSE 1
  IN  IF wordsGained > 0 /\ currentStreak.lastDate # todayStamp
      THEN Some([count |-> count, record |-> count, lastDate |-> todayStamp])
      ELSE NULL

\* NextStreak with the gap taken between the days of the month.
NextStreakDayOfMonth(streak, wordsGained, todayStamp) ==
  LET currentStreak == IF streak = NULL THEN ZeroStreak ELSE Val(streak)
      diff == IF currentStreak.lastDate = NULL THEN DateParse(todayStamp)
              ELSE todayStamp[3] - currentStreak.lastDate[3]
      count == IF diff = 1 THEN currentStreak.count + 1 ELSE 1
  IN  IF wordsGained > 0 /\ currentStreak.lastDate # todayStamp
      THEN Some([count |-> count,
                 record |-> Max(currentStreak.record, count),
                 lastDate |-> todayStamp])
      ELSE NULL

\* NextStreak continuing the streak over any gap of one day or more.
NextStreakAnyGap(streak, wordsGained, todayStamp) ==
  LET currentStreak == IF streak = NULL THEN ZeroStreak ELSE Val(streak)
      diff == DateParse(todayStamp) - DateParse(currentStreak.lastDate)
      count == IF diff >= 1 THEN currentStreak.count + 1 ELSE 1
  IN  IF wordsGained > 0 /\ currentStreak.lastDate # todayStamp
      THEN Some([count |-> count,
                 record |-> Max(currentStreak.record, count),
                 lastDate |-> todayStamp])
      ELSE NULL

\* NextStreak continuing the streak over one skipped day.
NextStreakSkipsADay(streak, wordsGained, todayStamp) ==
  LET currentStreak == IF streak = NULL THEN ZeroStreak ELSE Val(streak)
      diff == DateParse(todayStamp) - DateParse(currentStreak.lastDate)
      count == IF diff \in {1, 2} THEN currentStreak.count + 1 ELSE 1
  IN  IF wordsGained > 0 /\ currentStreak.lastDate # todayStamp
      THEN Some([count |-> count,
                 record |-> Max(currentStreak.record, count),
                 lastDate |-> todayStamp])
      ELSE NULL

\* The streak the transaction leaves: the record it puts, or the stored one.
NextStreak(streak, wordsGained, todayStamp) ==
  LET currentStreak == IF streak = NULL THEN ZeroStreak ELSE Val(streak)
      diff == DateParse(todayStamp) - DateParse(currentStreak.lastDate)
      count == IF diff = 1 THEN currentStreak.count + 1 ELSE 1
  IN  IF wordsGained > 0 /\ currentStreak.lastDate # todayStamp
      THEN Some([count |-> count,
                 record |-> Max(currentStreak.record, count),
                 lastDate |-> todayStamp])
      ELSE NULL

\* NextSession storing the gain in place of the day's total.
NextSessionOverwrite(session, savedTyping, wordsGained, todayStamp) ==
  LET stored == IF session = NULL THEN ZeroSession(todayStamp) ELSE Val(session)
      currentSession == IF stored.date # todayStamp THEN ZeroSession(todayStamp)
                        ELSE stored
      time == IF savedTyping = NULL THEN 0 ELSE Val(savedTyping).time
  IN  [currentSession EXCEPT !.minutes = time \div MsPerMinute,
                             !.words = wordsGained]

\* NextSession adding to a stale record as it is stored, date included.
NextSessionStaleDate(session, savedTyping, wordsGained, todayStamp) ==
  LET currentSession == IF session = NULL THEN ZeroSession(todayStamp) ELSE Val(session)
      time == IF savedTyping = NULL THEN 0 ELSE Val(savedTyping).time
  IN  [currentSession EXCEPT !.minutes = time \div MsPerMinute,
                             !.words = currentSession.words + wordsGained]

\* NextSession renewing only the date and the words of a stale record.
NextSessionKeepsSprints(session, savedTyping, wordsGained, todayStamp) ==
  LET stored == IF session = NULL THEN ZeroSession(todayStamp) ELSE Val(session)
      currentSession == IF stored.date # todayStamp
                        THEN [stored EXCEPT !.date = todayStamp, !.words = 0]
                        ELSE stored
      time == IF savedTyping = NULL THEN 0 ELSE Val(savedTyping).time
  IN  [currentSession EXCEPT !.minutes = time \div MsPerMinute,
                             !.words = currentSession.words + wordsGained]

\* The session record the transaction puts.
NextSession(session, savedTyping, wordsGained, todayStamp) ==
  LET stored == IF session = NULL THEN ZeroSession(todayStamp) ELSE Val(session)
      currentSession == IF stored.date # todayStamp THEN ZeroSession(todayStamp)
                        ELSE stored
      time == IF savedTyping = NULL THEN 0 ELSE Val(savedTyping).time
  IN  [currentSession EXCEPT !.minutes = time \div MsPerMinute,
                             !.words = currentSession.words + wordsGained]

\* updateAllStatsTransaction(wordsGained): the stamp is taken at the call,
\* before the transaction is opened.
StatsCall(wordsGained) ==
  pending' = Append(pending, [todayStamp |-> getLocalDateStamp(now),
                              wordsGained |-> wordsGained])

\* The transaction takes the table, its three gets resolve and the callback
\* runs to its end, putting the streak (lines 1266-1283) and the session
\* record (lines 1285-1307) inside the transaction.
TxBegin ==
  /\ tx = NULL
  /\ pending # <<>>
  /\ pending' = Tail(pending)
  /\ tx' = Some([todayStamp |-> Head(pending).todayStamp,
                 wordsGained |-> Head(pending).wordsGained,
                 session |-> sessionStats,
                 streak |-> streakData,
                 putStreak |-> NextStreak(streakData, Head(pending).wordsGained,
                                          Head(pending).todayStamp),
                 putSession |-> Some(NextSession(sessionStats, typingTime,
                                                 Head(pending).wordsGained,
                                                 Head(pending).todayStamp))])
  /\ UNCHANGED <<now, appVars, storeVars, ns, sprintVars, pillVars, critical, saveVars, gainDays, popover, editorVars, timeVars, call, countVars>>

\* The transaction cannot be opened or one of its gets fails: db.transaction
\* rejects with nothing put, and the catch calls errorHandler.critical.
TxGetFail ==
  /\ tx = NULL
  /\ pending # <<>>
  /\ pending' = Tail(pending)
  /\ critical' = TRUE
  /\ UNCHANGED <<now, appVars, storeVars, tx, ns, sprintVars, pillVars, saveVars, gainDays, popover, editorVars, timeVars, call, countVars>>

\* The callback has returned: the transaction commits and its puts become
\* the stored records.
TxPuts ==
  /\ tx # NULL
  /\ streakData' = IF Val(tx).putStreak = NULL THEN streakData ELSE Val(tx).putStreak
  /\ sessionStats' = Val(tx).putSession
  /\ tx' = NULL
  /\ UNCHANGED <<now, appVars, typingTime, pending, ns, sprintVars, pillVars, critical,
                 saveVars, popover, editorVars, timeVars, call, countVars>>

TxCommit ==
  /\ TxPuts
  /\ UNCHANGED gainDays

\* TxCommit with the day of the committed gain entered in the history.
TxCommitLogged ==
  /\ TxPuts
  /\ gainDays' = IF Val(tx).wordsGained > 0
                 THEN gainDays \cup {DayOf(Val(tx).todayStamp)}
                 ELSE gainDays

\* TxFail with the streak put left in the store: no rollback.
TxFailKeepsStreak ==
  /\ tx # NULL
  /\ tx' = NULL
  /\ critical' = TRUE
  /\ streakData' = IF Val(tx).putStreak = NULL THEN streakData ELSE Val(tx).putStreak
  /\ UNCHANGED <<now, appVars, sessionStats, typingTime, pending, ns, sprintVars, pillVars, saveVars, gainDays, popover, editorVars, timeVars, call,
                 countVars>>

\* A put or the commit fails: the transaction aborts, its puts are dropped,
\* db.transaction rejects and the catch calls errorHandler.critical.
TxFail ==
  /\ tx # NULL
  /\ tx' = NULL
  /\ critical' = TRUE
  /\ UNCHANGED <<now, appVars, storeVars, pending, ns, sprintVars, pillVars, saveVars, gainDays, popover, editorVars, timeVars, call, countVars>>

\* ---------------------------------------------------------- the editor
\* storage.set('wt:typingTime', ...): the put succeeds, or fails (storage.set
\* logs the error to the console and returns false, which no caller reads).
SetTypingTime(value) ==
  \/ typingTime' = Some(value)
  \/ typingTime' = typingTime

\* The editor's input handler, the text now holding w words.
Input(w) ==
  LET today == toDateString(now)
      newDay == today # typing.date
  IN
  /\ w # words
  /\ words' = w
  /\ IF newDay
     THEN /\ StoreIdle
          /\ typing' = [date |-> today, totalTime |-> 0, burst |-> TRUE]
          /\ SetTypingTime([date |-> today, time |-> 0])
     ELSE /\ typing' = [typing EXCEPT !.burst = TRUE]
          /\ UNCHANGED typingTime
  /\ IF w > peakWordCount
     THEN peakWordCount' = w /\ statsTimer' = TRUE
     ELSE UNCHANGED <<peakWordCount, statsTimer>>
  /\ UNCHANGED <<now, lastSyncedWords, sessionStats, streakData, pending, tx, ns,
                 sprintVars, pillVars, critical, saveVars, gainDays, popover, editorVars, timeVars, call, countVars>>

\* The burst timer fires after 3000 ms without input.
BurstEnd ==
  /\ typing.burst
  /\ nBursts < MaxBursts
  /\ StoreIdle
  /\ nBursts' = nBursts + 1
  /\ typing' = [typing EXCEPT !.totalTime = typing.totalTime + BurstMs,
                              !.burst = FALSE]
  /\ SetTypingTime([date |-> typing.date, time |-> typing.totalTime + BurstMs])
  /\ UNCHANGED <<now, words, peakWordCount, lastSyncedWords, statsTimer,
                 sessionStats, streakData, pending, tx, ns, sprintVars, pillVars, critical, saveVars, gainDays, popover, editorVars, timeVars, call,
                 nSessions, nLoads>>

\* debouncedStatsUpdate following the text down: lastSyncedWords is set to the
\* current count whether or not words were gained.
debouncedStatsUpdateFollowsText ==
  LET wordsGained == Max(0, words - lastSyncedWords) IN
  /\ statsTimer
  /\ statsTimer' = FALSE
  /\ lastSyncedWords' = words
  /\ IF wordsGained > 0
     THEN StatsCall(wordsGained)
     ELSE UNCHANGED pending
  /\ UNCHANGED <<now, words, peakWordCount, typing, storeVars, tx, ns, sprintVars, pillVars,
                 critical, saveVars, gainDays, popover, editorVars, timeVars, call, countVars>>

\* The callback of debouncedStatsUpdate.
debouncedStatsUpdate ==
  LET wordsGained == Max(0, words - lastSyncedWords) IN
  /\ statsTimer
  /\ statsTimer' = FALSE
  /\ IF wordsGained > 0
     THEN /\ lastSyncedWords' = words
          /\ StatsCall(wordsGained)
     ELSE UNCHANGED <<lastSyncedWords, pending>>
  /\ UNCHANGED <<now, words, peakWordCount, typing, storeVars, tx, ns, sprintVars, pillVars,
                 critical, saveVars, gainDays, popover, editorVars, timeVars, call, countVars>>

\* ------------------------------------------------------- streak reset
\* ResetStreak storing a zeroed streak record in place of deleting the key.
ResetStreakZeroes ==
  /\ StoreIdle
  /\ \/ streakData' = Some(ZeroStreak)
     \/ streakData' = streakData
  /\ UNCHANGED <<now, appVars, sessionStats, typingTime, pending, tx, ns, sprintVars, pillVars,
                 critical, saveVars, gainDays, popover, editorVars, timeVars, call, countVars>>

\* resetStreakBtn, confirmed: storage.remove('wt:streakData') deletes the
\* record, or fails (storage.remove logs a warning to the console).
ResetStreak ==
  /\ StoreIdle
  /\ \/ streakData' = NULL
     \/ streakData' = streakData
  /\ UNCHANGED <<now, appVars, sessionStats, typingTime, pending, tx, ns, sprintVars, pillVars,
                 critical, saveVars, gainDays, popover, editorVars, timeVars, call, countVars>>

\* ------------------------------------------------------- new session
\* newSessionBtn, confirmed: the editor is cleared and the stamp taken.
NewSessionClick ==
  /\ ns = NULL
  /\ nSessions < MaxSessions
  /\ nSessions' = nSessions + 1
  /\ words' = 0
  /\ ns' = Some([pc |-> "sessionStats", todayStamp |-> getLocalDateStamp(now)])
  /\ UNCHANGED <<now, peakWordCount, lastSyncedWords, statsTimer, typing, storeVars,
                 pending, tx, sprintVars, pillVars, critical, saveVars, gainDays, popover, editorVars, timeVars, call, nBursts, nLoads>>

\* newSessionBtn, the confirmation declined: closeClearMenu(false) closes the
\* menu and nothing else is done.
NewSessionDeclined ==
  /\ ns = NULL
  /\ UNCHANGED vars

\* NsSetSession clearing the streak together with the day's record.
NsSetSessionClearsStreak ==
  /\ ns # NULL
  /\ Val(ns).pc = "sessionStats"
  /\ StoreIdle
  /\ \/ sessionStats' = Some(ZeroSession(Val(ns).todayStamp)) /\ streakData' = NULL
     \/ UNCHANGED <<sessionStats, streakData>>
  /\ ns' = Some([Val(ns) EXCEPT !.pc = "typingTime"])
  /\ UNCHANGED <<now, appVars, typingTime, pending, tx, sprintVars, pillVars,
                 critical, saveVars, gainDays, popover, editorVars, timeVars, call, countVars>>

\* await storage.set('wt:sessionStats', zeroed record for today).
NsSetSession ==
  /\ ns # NULL
  /\ Val(ns).pc = "sessionStats"
  /\ StoreIdle
  /\ \/ sessionStats' = Some(ZeroSession(Val(ns).todayStamp))
     \/ sessionStats' = sessionStats
  /\ ns' = Some([Val(ns) EXCEPT !.pc = "typingTime"])
  /\ UNCHANGED <<now, appVars, streakData, typingTime, pending, tx, sprintVars, pillVars,
                 critical, saveVars, gainDays, popover, editorVars, timeVars, call, countVars>>

\* showSaveToast(), counted.
Toast ==
  /\ nToasts' = IF nToasts < MaxToasts THEN nToasts + 1 ELSE nToasts
  /\ lastToastAt' = now

\* save(showToast) outside the variables it leaves alone: the text is put,
\* or the put fails (storage.set returns false, which save does not read);
\* lastSavedAt is set and the toast shown.  (The put of the goal, a key that
\* is not modelled, follows in the same way.)
SaveText(showToast) ==
  /\ \/ saved' = Some(words)
     \/ saved' = saved
  /\ lastSavedAt' = now
  /\ IF showToast THEN Toast ELSE UNCHANGED <<lastToastAt, nToasts>>

\* NsSetTyping with a failed storage.set throwing: the handler ends there.
NsSetTypingThrows ==
  /\ ns # NULL
  /\ Val(ns).pc = "typingTime"
  /\ StoreIdle
  /\ \/ /\ typingTime' = Some([date |-> typing.date, time |-> 0])
        /\ typing' = [typing EXCEPT !.totalTime = 0]
        /\ peakWordCount' = 0
        /\ lastSyncedWords' = 0
     \/ UNCHANGED <<typingTime, typing, peakWordCount, lastSyncedWords>>
  /\ ns' = NULL
  /\ UNCHANGED <<now, words, statsTimer, sessionStats, streakData, pending, tx,
                 sprintVars, pillVars, critical, saveVars, gainDays, popover, editorVars, timeVars, call, countVars>>

\* await storage.set('wt:typingTime', ...), then the tracking state is reset
\* and the cleared text saved (await save(), whose put follows directly).
NsSetTyping ==
  /\ ns # NULL
  /\ Val(ns).pc = "typingTime"
  /\ StoreIdle
  /\ SetTypingTime([date |-> typing.date, time |-> 0])
  /\ typing' = [typing EXCEPT !.totalTime = 0]
  /\ peakWordCount' = 0
  /\ lastSyncedWords' = 0
  /\ SaveText(FALSE)
  /\ ns' = NULL
  /\ UNCHANGED <<now, words, statsTimer, sessionStats, streakData, pending, tx,
                 sprintVars, pillVars, critical, gainDays, popover, editorVars, timeVars, call, countVars>>

\* ------------------------------------------------------------------ save
\* save(showToast): saveBtn and Ctrl+S call save(true), the other callers
\* save().
save(showToast) ==
  /\ StoreIdle
  /\ SaveText(showToast)
  /\ UNCHANGED <<now, appVars, storeVars, pending, tx, ns, sprintVars, pillVars,
                 critical, gainDays, popover, editorVars, timeVars, call, countVars>>

\* throttledSave(), called by the input handler: past the autosave interval
\* (always, when lastSavedAt is still 0) it saves, sets lastSavedAt again
\* and, past the toast interval (always, when lastToastAt is still 0), shows
\* the toast; within the interval it returns.
throttledSave ==
  /\ typing.burst
  /\ StoreIdle
  /\ \/ SaveText(TRUE)
     \/ /\ lastToastAt # 0
        /\ SaveText(FALSE)
     \/ /\ lastSavedAt # 0
        /\ UNCHANGED saveVars
  /\ UNCHANGED <<now, appVars, storeVars, pending, tx, ns, sprintVars, pillVars,
                 critical, gainDays, popover, editorVars, timeVars, call, countVars>>

\* ---------------------------------------------------- registerSprintResult
\* The sequence q without its i-th element.
Remove(q, i) == SubSeq(q, 1, i - 1) \o SubSeq(q, i + 1, Len(q))

\* Tock.stop() on countdown t: it no longer runs (NULL: there is none).
stop(t) == IF t = NULL THEN NULL ELSE Some([Val(t) EXCEPT !.go = FALSE])

\* 1 when countdown t is running, 0 when it is stopped or there is none.
Running(t) == IF t = NULL THEN 0 ELSE IF Val(t).go THEN 1 ELSE 0

\* sprintManager.reset(): the state it leaves.
reset == IdleState

\* sprintManager.reset() outside the state: the countdown is stopped before
\* it is dropped and the pill loses its classes.
ResetPill ==
  /\ strays' = strays + Running(stop(state.tock))
  /\ pillFinished' = FALSE
  /\ UNCHANGED nShown

\* registerSprintResult(wordsGained) is called: its storage.get is issued.
\* awaited: the call is awaited by sprintManager.end, which resets afterwards.
RegCall(wordsGained, awaited) ==
  /\ regs = <<>>
  /\ Len(regs) + (IF sessionStats = NULL THEN 0 ELSE Val(sessionStats).sprints)
       < MaxSprintCount
  /\ regs' = Append(regs, [pc |-> "get", wordsGained |-> wordsGained,
                           session |-> NULL, awaited |-> awaited])

\* SprintSession raising the best sprint without counting the sprint.
SprintSessionNoCount(session, wordsGained) ==
  [session EXCEPT !.bestSprint = Max(session.bestSprint, wordsGained)]

\* SprintSession with the best sprint set to the last sprint.
SprintSessionLast(session, wordsGained) ==
  [session EXCEPT !.sprints = session.sprints + 1,
                  !.bestSprint = wordsGained]

\* The record registerSprintResult writes back.
SprintSession(session, wordsGained) ==
  [session EXCEPT !.sprints = session.sprints + 1,
                  !.bestSprint = Max(session.bestSprint, wordsGained)]

\* RegReturn with sprintManager.end never reaching its reset.
RegReturnNoReset(i) ==
  /\ regs' = Remove(regs, i)
  /\ UNCHANGED <<state, pillVars>>

\* registerSprintResult returns; sprintManager.end, if it awaited it, resets.
RegReturn(i) ==
  /\ regs' = Remove(regs, i)
  /\ state' = IF regs[i].awaited THEN reset ELSE state
  /\ IF regs[i].awaited THEN ResetPill ELSE UNCHANGED pillVars

\* await storage.get('wt:sessionStats'): the record, or null when there is
\* none or the get fails (storage.get logs it to the console); on null the
\* function returns.
RegGet(i) ==
  /\ regs[i].pc = "get"
  /\ StoreIdle
  /\ \/ /\ sessionStats # NULL
        /\ regs' = [regs EXCEPT ![i].pc = "set", ![i].session = sessionStats]
        /\ UNCHANGED <<state, pillVars>>
     \/ /\ sessionStats = NULL
        /\ RegReturn(i)
     \/ RegReturn(i)
  /\ UNCHANGED <<now, appVars, storeVars, pending, tx, ns,
                 critical, saveVars, gainDays, popover, editorVars, timeVars, call, countVars>>

\* await storage.set('wt:sessionStats', session), then updateSessionStats().
RegSet(i) ==
  /\ regs[i].pc = "set"
  /\ StoreIdle
  /\ \/ sessionStats' = Some(SprintSession(Val(regs[i].session), regs[i].wordsGained))
     \/ sessionStats' = sessionStats
  /\ RegReturn(i)
  /\ UNCHANGED <<now, appVars, streakData, typingTime, pending, tx, ns, critical, saveVars, gainDays, popover, editorVars, timeVars, call, countVars>>

\* ------------------------------------------------------ the sprint manager
\* Tock: a countdown of ms milliseconds, running.
Tock(ms) == Some([left |-> ms, go |-> TRUE])

\* start taking the minutes as given, without the minimum of one.
startNoMinimum(minutes, currentWordCount) ==
  /\ state' = [status |-> "running",
               startWords |-> currentWordCount,
               durationMs |-> minutes * MsPerMinute,
               wordsGained |-> 0,
               tock |-> Tock(minutes * MsPerMinute)]
  /\ strays' = strays + Running(stop(state.tock))
  /\ pillFinished' = FALSE
  /\ UNCHANGED <<now, appVars, storeVars, pending, tx, ns, regs,
                 critical, saveVars, gainDays, popover, editorVars, timeVars, call, countVars, nShown>>

\* start dropping the prior countdown without stopping it.
startKeepsOld(minutes, currentWordCount) ==
  /\ state' = [status |-> "running",
               startWords |-> currentWordCount,
               durationMs |-> Max(1, minutes) * MsPerMinute,
               wordsGained |-> 0,
               tock |-> Tock(Max(1, minutes) * MsPerMinute)]
  /\ strays' = strays + Running(state.tock)
  /\ pillFinished' = FALSE
  /\ UNCHANGED <<now, appVars, storeVars, pending, tx, ns, regs,
                 critical, saveVars, gainDays, popover, editorVars, timeVars, call, countVars, nShown>>

\* sprintManager.start(minutes, currentWordCount): the state is set, the prior
\* countdown, if any, is stopped and dropped, and a new one is started.
managerStart(minutes, currentWordCount) ==
  /\ state' = [status |-> "running",
               startWords |-> currentWordCount,
               durationMs |-> Max(1, minutes) * MsPerMinute,
               wordsGained |-> 0,
               tock |-> Tock(Max(1, minutes) * MsPerMinute)]
  /\ strays' = strays + Running(stop(state.tock))
  /\ pillFinished' = FALSE
  /\ UNCHANGED <<now, appVars, storeVars, pending, tx, ns, regs,
                 critical, saveVars, gainDays, editorVars, timeVars, call, countVars, nShown>>

\* sprintManager.start(minutes, currentWordCount), called while the popover stays
\* as it is.
start(minutes, currentWordCount) ==
  /\ managerStart(minutes, currentWordCount)
  /\ UNCHANGED popover

\* Time passes while the countdown runs and some of it is left: the interval
\* callback redraws the clock.
Tick ==
  /\ state.tock # NULL
  /\ Val(state.tock).go
  /\ Val(state.tock).left > StepMinutes * MsPerMinute
  /\ state' = [state EXCEPT !.tock =
                 Some([Val(state.tock) EXCEPT !.left = @ - StepMinutes * MsPerMinute])]
  /\ UNCHANGED <<now, appVars, storeVars, pending, tx, ns, regs, critical, saveVars, gainDays, popover, editorVars, timeVars, call, countVars,
                 pillVars>>

\* The complete callback showing its feedback only when words were gained.
completeShowsIfGained ==
  LET wordsGained == Max(0, words - state.startWords) IN
  /\ state.tock # NULL
  /\ Val(state.tock).go
  /\ Val(state.tock).left <= StepMinutes * MsPerMinute
  /\ RegCall(wordsGained, FALSE)
  /\ state' = [state EXCEPT !.wordsGained = wordsGained,
                            !.status = "finished",
                            !.tock = NULL,
                            !.durationMs = 0]
  /\ nShown' = IF nShown < MaxShown /\ wordsGained > 0 THEN nShown + 1 ELSE nShown
  /\ pillFinished' = TRUE
  /\ strays' = strays + Running(stop(state.tock))
  /\ UNCHANGED <<now, appVars, storeVars, pending, tx, ns, critical, saveVars, gainDays, popover, editorVars, timeVars, call,
                 countVars>>

\* The countdown reaches zero: the complete callback of start(), which shows
\* the completion feedback, calls registerSprintResult without awaiting it
\* and stops and drops the countdown.
complete ==
  LET wordsGained == Max(0, words - state.startWords) IN
  /\ state.tock # NULL
  /\ Val(state.tock).go
  /\ Val(state.tock).left <= StepMinutes * MsPerMinute
  /\ RegCall(wordsGained, FALSE)
  /\ state' = [state EXCEPT !.wordsGained = wordsGained,
                            !.status = "finished",
                            !.tock = NULL,
                            !.durationMs = 0]
  /\ nShown' = IF nShown < MaxShown THEN nShown + 1 ELSE nShown
  /\ pillFinished' = TRUE
  /\ strays' = strays + Running(stop(state.tock))
  /\ UNCHANGED <<now, appVars, storeVars, pending, tx, ns, critical, saveVars, gainDays, popover, editorVars, timeVars, call,
                 countVars>>

\* pause without its status guard on a paused sprint: Tock's pause() toggles,
\* so the countdown runs again while the status says paused.
pauseToggles ==
  /\ state' = IF state.status \notin {"running", "paused"} \/ state.tock = NULL THEN state
              ELSE [state EXCEPT !.status = "paused",
                                 !.tock = Some([Val(state.tock) EXCEPT !.go = ~Val(state.tock).go])]
  /\ UNCHANGED <<now, appVars, storeVars, pending, tx, ns, regs, critical, saveVars, gainDays, popover, editorVars, timeVars, call, countVars,
                 pillVars>>

\* sprintManager.pause().
managerPause ==
  /\ state' = IF state.status # "running" \/ state.tock = NULL THEN state
              ELSE [state EXCEPT !.status = "paused",
                                 !.tock = Some([Val(state.tock) EXCEPT !.go = FALSE])]
  /\ UNCHANGED <<now, appVars, storeVars, pending, tx, ns, regs, critical, saveVars, gainDays, editorVars, timeVars, call, countVars,
                 pillVars>>

\* sprintManager.pause(), called while the popover stays as it is.
pause ==
  /\ managerPause
  /\ UNCHANGED popover

\* resume taking the current word count as the sprint's new baseline.
resumeRebases ==
  /\ state' = IF state.status # "paused" \/ state.tock = NULL THEN state
              ELSE [state EXCEPT !.status = "running",
                                 !.startWords = words,
                                 !.tock = Some([Val(state.tock) EXCEPT !.go = TRUE])]
  /\ UNCHANGED <<now, appVars, storeVars, pending, tx, ns, regs, critical, saveVars, gainDays, popover, editorVars, timeVars, call, countVars,
                 pillVars>>

\* resume starting the countdown again from the full duration.
resumeRestarts ==
  /\ state' = IF state.status # "paused" \/ state.tock = NULL THEN state
              ELSE [state EXCEPT !.status = "running",
                                 !.tock = Tock(state.durationMs)]
  /\ UNCHANGED <<now, appVars, storeVars, pending, tx, ns, regs, critical, saveVars, gainDays, popover, editorVars, timeVars, call, countVars,
                 pillVars>>

\* sprintManager.resume().
managerResume ==
  /\ state' = IF state.status # "paused" \/ state.tock = NULL THEN state
              ELSE [state EXCEPT !.status = "running",
                                 !.tock = Some([Val(state.tock) EXCEPT !.go = TRUE])]
  /\ UNCHANGED <<now, appVars, storeVars, pending, tx, ns, regs, critical, saveVars, gainDays, editorVars, timeVars, call, countVars,
                 pillVars>>

\* sprintManager.resume(), called while the popover stays as it is.
resume ==
  /\ managerResume
  /\ UNCHANGED popover

\* reset without the stop of the countdown: the status and the fields are
\* set as in reset(), state.tock is left as it is.
ResetKeepsTock ==
  /\ state' = [reset EXCEPT !.tock = state.tock]
  /\ ResetPill
  /\ UNCHANGED <<now, appVars, storeVars, pending, tx, ns, regs, critical, saveVars, gainDays, popover, editorVars, timeVars, call, countVars>>

\* sprintManager.reset(), called by the popover's Reset.
managerReset ==
  /\ state' = reset
  /\ ResetPill
  /\ UNCHANGED <<now, appVars, storeVars, pending, tx, ns, regs, critical, saveVars, gainDays, editorVars, timeVars, call, countVars>>

\* sprintManager.reset(), called while the popover stays as it is.
Reset ==
  /\ managerReset
  /\ UNCHANGED popover

\* end without the test of userCancelled.
endRegistersAlways(userCancelled) ==
  LET wordsGained == Max(0, words - state.startWords) IN
  /\ IF wordsGained > 0
     THEN /\ RegCall(wordsGained, TRUE)
          /\ UNCHANGED <<state, pillVars>>
     ELSE /\ state' = reset
          /\ ResetPill
          /\ UNCHANGED regs
  /\ UNCHANGED <<now, appVars, storeVars, pending, tx, ns, critical, saveVars, gainDays, popover, editorVars, timeVars, call,
                 countVars>>

\* sprintManager.end(userCancelled), up to its first await or its reset.
end(userCancelled) ==
  LET wordsGained == Max(0, words - state.startWords) IN
  /\ IF ~userCancelled /\ wordsGained > 0
     THEN /\ RegCall(wordsGained, TRUE)
          /\ UNCHANGED <<state, pillVars>>
     ELSE /\ state' = reset
          /\ ResetPill
          /\ UNCHANGED regs
  /\ UNCHANGED <<now, appVars, storeVars, pending, tx, ns, critical, saveVars, gainDays, popover, editorVars, timeVars, call,
                 countVars>>

\* The timeout set by the complete callback fires after 500 ms: the pill
\* loses the class 'finished'; the sprint state is not touched.
FlashEnd ==
  /\ pillFinished
  /\ pillFinished' = FALSE
  /\ UNCHANGED <<now, appVars, storeVars, pending, tx, ns, sprintVars, critical, saveVars, gainDays, popover, editorVars, timeVars, call,
                 countVars, strays, nShown>>

\* ------------------------------------------------- the sprint pill
\* The durations the popover offers for a new sprint (data-mins).
PopoverMinutes == {15, 25}

\* A button of the popover, by its dataset: an action or a duration.
ActionOption(action) == [action |-> Some(action), mins |-> NULL]
MinsOption(mins) == [action |-> NULL, mins |-> Some(mins)]

\* Every button the popover can hold.
Options ==
  {ActionOption(a) : a \in {"resume", "reset"}}
    \cup {MinsOption(m) : m \in PopoverMinutes}

\* The buttons of the open popover: Resume and Reset when it was opened on a
\* paused sprint, the durations otherwise.
PopoverOptions ==
  IF popover = "paused" THEN {ActionOption(a) : a \in {"resume", "reset"}}
  ELSE IF popover = "start" THEN {MinsOption(m) : m \in PopoverMinutes}
  ELSE {}

\* The click and Enter/Space handlers of the pill in idle, and the click
\* handler in paused: the popover is closed when it is open, and opened
\* otherwise; openSprintPopover() fills it by sprintManager.isPaused().
TogglePopover ==
  /\ popover' = IF popover # "closed" THEN "closed"
                ELSE IF state.status = "paused" THEN "paused" ELSE "start"
  /\ UNCHANGED <<now, appVars, storeVars, pending, tx, ns, sprintVars, pillVars, critical,
                 saveVars, gainDays, editorVars, timeVars, call, countVars>>

\* A click on the sprint pill outside its popover.  In finished none of the
\* three branches is taken.
pillClick ==
  IF state.status = "idle" THEN TogglePopover
  ELSE IF state.status = "running" THEN pause
  ELSE IF state.status = "paused" THEN TogglePopover
  ELSE UNCHANGED vars

\* A key pressed on the sprint pill: Enter (or Space), or Escape.
pillKeydown(key) ==
  IF key = "Enter"
  THEN IF state.status = "idle" THEN TogglePopover
       ELSE IF state.status = "running" THEN pause
       ELSE IF state.status = "paused" THEN resume
       ELSE UNCHANGED vars
  ELSE /\ popover' = "closed"
       /\ UNCHANGED <<now, appVars, storeVars, pending, tx, ns, sprintVars, pillVars,
                      critical, saveVars, gainDays, editorVars, timeVars, call, countVars>>

\* A click on a button of the open popover: the popover is closed and the
\* button's operation called.
popoverClick(option) ==
  /\ option \in PopoverOptions
  /\ popover' = "closed"
  /\ IF option = ActionOption("resume") THEN managerResume
     ELSE IF option = ActionOption("reset") THEN managerReset
     ELSE managerStart(Val(option.mins), words)

\* A click outside the pill while the popover is open closes it.
documentClick ==
  /\ popover # "closed"
  /\ popover' = "closed"
  /\ UNCHANGED <<now, appVars, storeVars, pending, tx, ns, sprintVars, pillVars, critical,
                 saveVars, gainDays, editorVars, timeVars, call, countVars>>

\* What the user can do with the sprint pill and its popover.
UserAction ==
  \/ pillClick
  \/ \E key \in {"Enter", "Escape"} : pillKeydown(key)
  \/ \E option \in Options : popoverClick(option)
  \/ documentClick

\* ------------------------------------------------------------ page load
\* The app is opened again while no storage request of the closed page is
\* left: appState is constructed (typing.date is today, totalTime 0), init()
\* takes the stored typing time over when its date is today (a failed get
\* gives the default {}), loadState() restores the saved text (none, or a
\* failed get, leaves the editor empty) and sets the three word counters to
\* its count, and a new sprint manager is idle.
Load ==
  LET today == toDateString(now)
      savedTime == IF typingTime # NULL /\ Val(typingTime).date = today
                   THEN Val(typingTime).time ELSE 0
  IN
  /\ pending = <<>>
  /\ tx = NULL
  /\ ns = NULL
  /\ regs = <<>>
  /\ nLoads < MaxLoads
  /\ nLoads' = nLoads + 1
  /\ \E time \in {savedTime, 0} :
       typing' = [date |-> today, totalTime |-> time, burst |-> FALSE]
  /\ \E savedText \in {saved, NULL} :
       LET w == IF savedText = NULL THEN 0 ELSE Val(savedText) IN
       /\ words' = w
       /\ peakWordCount' = w
       /\ lastSyncedWords' = w
  /\ statsTimer' = FALSE
  /\ state' = IdleState
  /\ pillFinished' = FALSE
  /\ lastSavedAt' = 0
  /\ lastToastAt' = 0
  /\ UNCHANGED <<now, storeVars, pending, tx, ns, regs, critical, gainDays, popover, editorVars, timeVars, call, saved, nToasts,
                 nBursts, nSessions, strays, nShown>>

\* importFileHandler(file) for a .txt, .md or .docx file whose text counts w
\* words: the text replaces the editor's (no input event is dispatched),
\* updateAll() redraws and save() puts the text.  The word counters of
\* appState are not touched.  (A declined confirmation and a file that cannot
\* be read leave everything as it was.)
importFileHandler(w) ==
  /\ StoreIdle
  /\ words' = w
  /\ SaveText(FALSE)
  /\ UNCHANGED <<now, peakWordCount, lastSyncedWords, statsTimer, typing, storeVars,
                 pending, tx, ns, sprintVars, pillVars, critical, gainDays, popover, editorVars,
                 timeVars, call, countVars>>

\* ---------------------------------------------------------- countWords
\* The characters of a text: a letter, the white space that occurs in a
\* textarea, the em dash (U+2014), and the three characters U+00E2, U+20AC
\* and U+201D that the pattern of the first replace is written with.
Chars == {"letter", "space", "tab", "newline", "emdash", "acirc", "euro", "rdquo"}

RECURSIVE SeqsUpTo(_, _)
SeqsUpTo(S, n) ==
  IF n = 0 THEN {<<>>}
  ELSE LET shorter == SeqsUpTo(S, n - 1)
       IN  shorter \cup {Append(t, c) : t \in shorter, c \in S}

Texts == SeqsUpTo(Chars, MaxText)

\* The pattern of text.replace(/.../g, ' ') as the source file spells it.
EmDashPattern == <<"acirc", "euro", "rdquo">>

IsPrefix(p, t) == Len(p) <= Len(t) /\ SubSeq(t, 1, Len(p)) = p

Drop(t, n) == SubSeq(t, n + 1, Len(t))

\* text.replace(pattern, ' ') with the g flag: every occurrence, left to right.
RECURSIVE ReplaceAll(_, _)
ReplaceAll(t, p) ==
  IF t = <<>> THEN <<>>
  ELSE IF IsPrefix(p, t) THEN <<"space">> \o ReplaceAll(Drop(t, Len(p)), p)
  ELSE <<Head(t)>> \o ReplaceAll(Tail(t), p)

\* The characters of the class, from the head of t on.
RECURSIVE DropWhile(_, _)
DropWhile(t, class) ==
  IF t # <<>> /\ Head(t) \in class THEN DropWhile(Tail(t), class) ELSE t

\* .replace(/[\n\t]+/g, ' '): each run of newlines and tabs becomes one space.
RECURSIVE ReplaceRuns(_)
ReplaceRuns(t) ==
  IF t = <<>> THEN <<>>
  ELSE IF Head(t) \in {"newline", "tab"}
       THEN <<"space">> \o ReplaceRuns(DropWhile(t, {"newline", "tab"}))
  ELSE <<Head(t)>> \o ReplaceRuns(Tail(t))

\* The characters \s matches, of those in Chars.
WhiteSpace == {"space", "tab", "newline"}

Reverse(t) == [i \in 1 .. Len(t) |-> t[Len(t) + 1 - i]]

\* String.prototype.trim.
Trim(t) == Reverse(DropWhile(Reverse(DropWhile(t, WhiteSpace)), WhiteSpace))

\* The characters before the first white space of t.
RECURSIVE TakeToken(_)
TakeToken(t) ==
  IF t = <<>> \/ Head(t) \in WhiteSpace THEN <<>>
  ELSE <<Head(t)>> \o TakeToken(Tail(t))

\* .split(/\s+/): the pieces between the runs of white space; the empty
\* string splits into one empty piece.
RECURSIVE Split(_)
Split(t) ==
  LET piece == TakeToken(t)
      rest == Drop(t, Len(piece))
  IN  IF rest = <<>> THEN <<piece>>
      ELSE <<piece>> \o Split(DropWhile(rest, WhiteSpace))

\* .filter(Boolean): the non-empty pieces.
FilterBoolean(arr) == SelectSeq(arr, LAMBDA piece : piece # <<>>)

countWords(t) ==
  LET cleaned == ReplaceRuns(ReplaceAll(t, EmDashPattern))
      arr == FilterBoolean(Split(Trim(cleaned)))
  IN  IF Len(arr) # 0 THEN Len(arr) ELSE 0

\* countWords(editor.value) is called.
CountText ==
  /\ counted = NULL
  /\ counted' = Some(countWords(text))
  /\ UNCHANGED <<now, appVars, storeVars, pending, tx, ns, sprintVars, pillVars, critical,
                 saveVars, gainDays, popover, text, call, timeVars, countVars>>

\* ------------------------------------------------------ the timed editor
\* The input handler and its timers with Date.now() in milliseconds: the
\* burst timer, the timeout of debouncedStatsUpdate and the put of
\* throttledSave.  A timer fires when it is due: the clock does not pass it.
Min(S) == CHOOSE x \in S : \A y \in S : x <= y

\* The times at which the pending timers fire.
Deadlines == {Val(x) : x \in {burstTimer, statsTimeout} \ {NULL}}

\* Time passes, by step ms or up to the next timer.
TimePasses(step) ==
  /\ clock + step <= StartTime + MaxTicks * step
  /\ \A d \in Deadlines : d > clock
  /\ clock' = Min({clock + step} \cup Deadlines)
  /\ UNCHANGED <<now, appVars, storeVars, pending, tx, ns, sprintVars, pillVars, critical,
                 saveVars, gainDays, popover, editorVars, call, countVars,
                 startTimestamp, burstTimer, statsTimeout, savePut, run>>

\* inputEvent starting the burst anew at every keystroke.
inputEventRestartsBurst(w) ==
  LET raise == w > peakWordCount
      sameRun == run.lastInputAt # NULL /\ clock - Val(run.lastInputAt) < DebounceMs
      sameRaise == run.lastRaiseAt # NULL /\ clock - Val(run.lastRaiseAt) < DebounceMs
      throttled == savePut # NULL \/ ~(clock - lastSavedAt > AUTOSAVE_INTERVAL_MS)
  IN
  /\ run.inputs < MaxInputs
  /\ toDateString(now) = typing.date
  /\ words' = w
  /\ typing' = [typing EXCEPT !.burst = TRUE]
  /\ startTimestamp' = Some(clock)
  /\ burstTimer' = Some(clock + TYPING_BURST_THRESHOLD_MS)
  /\ IF raise
     THEN /\ peakWordCount' = w
          /\ statsTimer' = TRUE
          /\ statsTimeout' = Some(clock + DebounceMs)
     ELSE UNCHANGED <<peakWordCount, statsTimer, statsTimeout>>
  /\ savePut' = IF throttled THEN savePut ELSE Some(w)
  /\ run' = [inputs |-> run.inputs + 1,
             lastInputAt |-> Some(clock),
             lastRaiseAt |-> IF raise THEN Some(clock) ELSE run.lastRaiseAt,
             runCalls |-> IF sameRun THEN run.runCalls ELSE 0,
             raiseCalls |-> IF raise /\ ~sameRaise THEN 0 ELSE run.raiseCalls]
  /\ UNCHANGED <<now, clock, lastSyncedWords, storeVars, pending, tx, ns,
                 sprintVars, pillVars, critical, saveVars, gainDays, popover, editorVars, call,
                 countVars>>

\* inputEvent with a debounce that leaves a pending timeout as it is.
inputEventKeepsTimeout(w) ==
  LET raise == w > peakWordCount
      sameRun == run.lastInputAt # NULL /\ clock - Val(run.lastInputAt) < DebounceMs
      sameRaise == run.lastRaiseAt # NULL /\ clock - Val(run.lastRaiseAt) < DebounceMs
      throttled == savePut # NULL \/ ~(clock - lastSavedAt > AUTOSAVE_INTERVAL_MS)
  IN
  /\ run.inputs < MaxInputs
  /\ toDateString(now) = typing.date
  /\ words' = w
  /\ typing' = [typing EXCEPT !.burst = TRUE]
  /\ startTimestamp' = IF startTimestamp = NULL THEN Some(clock) ELSE startTimestamp
  /\ burstTimer' = Some(clock + TYPING_BURST_THRESHOLD_MS)
  /\ IF raise
     THEN /\ peakWordCount' = w
          /\ statsTimer' = TRUE
          /\ statsTimeout' = IF statsTimeout = NULL THEN Some(clock + DebounceMs)
                             ELSE statsTimeout
     ELSE UNCHANGED <<peakWordCount, statsTimer, statsTimeout>>
  /\ savePut' = IF throttled THEN savePut ELSE Some(w)
  /\ run' = [inputs |-> run.inputs + 1,
             lastInputAt |-> Some(clock),
             lastRaiseAt |-> IF raise THEN Some(clock) ELSE run.lastRaiseAt,
             runCalls |-> IF sameRun THEN run.runCalls ELSE 0,
             raiseCalls |-> IF raise /\ ~sameRaise THEN 0 ELSE run.raiseCalls]
  /\ UNCHANGED <<now, clock, lastSyncedWords, storeVars, pending, tx, ns,
                 sprintVars, pillVars, critical, saveVars, gainDays, popover, editorVars, call,
                 countVars>>

\* The editor's input handler on the day of appState.typing.date, the text now
\* holding w words: the burst start is recorded if there is none and the
\* burst timer set again (lines 1333-1362); on a new peak
\* debouncedStatsUpdate() sets its timeout again (1367-1371); throttledSave()
\* returns while a save is in progress or within the autosave interval, and
\* otherwise calls save(), which puts the text (857-864, 842).  The history
\* run counts the event, and starts a new run of events (of peak-raising
\* events) when the last one is DebounceMs or more ago.
inputEvent(w) ==
  LET raise == w > peakWordCount
      sameRun == run.lastInputAt # NULL /\ clock - Val(run.lastInputAt) < DebounceMs
      sameRaise == run.lastRaiseAt # NULL /\ clock - Val(run.lastRaiseAt) < DebounceMs
      throttled == savePut # NULL \/ ~(clock - lastSavedAt > AUTOSAVE_INTERVAL_MS)
  IN
  /\ run.inputs < MaxInputs
  /\ toDateString(now) = typing.date
  /\ words' = w
  /\ typing' = [typing EXCEPT !.burst = TRUE]
  /\ startTimestamp' = IF startTimestamp = NULL THEN Some(clock) ELSE startTimestamp
  /\ burstTimer' = Some(clock + TYPING_BURST_THRESHOLD_MS)
  /\ IF raise
     THEN /\ peakWordCount' = w
          /\ statsTimer' = TRUE
          /\ statsTimeout' = Some(clock + DebounceMs)
     ELSE UNCHANGED <<peakWordCount, statsTimer, statsTimeout>>
  /\ savePut' = IF throttled THEN savePut ELSE Some(w)
  /\ run' = [inputs |-> run.inputs + 1,
             lastInputAt |-> Some(clock),
             lastRaiseAt |-> IF raise THEN Some(clock) ELSE run.lastRaiseAt,
             runCalls |-> IF sameRun THEN run.runCalls ELSE 0,
             raiseCalls |-> IF raise /\ ~sameRaise THEN 0 ELSE run.raiseCalls]
  /\ UNCHANGED <<now, clock, lastSyncedWords, storeVars, pending, tx, ns,
                 sprintVars, pillVars, critical, saveVars, gainDays, popover, editorVars, call,
                 countVars>>

\* The burst timer fires (lines 1344-1361): the time since the burst start
\* is added to the total, the start cleared and the total put (the put may
\* fail).
burstTimerFires ==
  /\ burstTimer # NULL
  /\ clock >= Val(burstTimer)
  /\ StoreIdle
  /\ burstTimer' = NULL
  /\ IF startTimestamp # NULL
     THEN LET totalTime == typing.totalTime + (clock - Val(startTimestamp)) IN
          /\ typing' = [typing EXCEPT !.totalTime = totalTime, !.burst = FALSE]
          /\ startTimestamp' = NULL
          /\ SetTypingTime([date |-> typing.date, time |-> totalTime])
     ELSE UNCHANGED <<typing, startTimestamp, typingTime>>
  /\ UNCHANGED <<now, clock, words, peakWordCount, lastSyncedWords, statsTimer,
                 sessionStats, streakData, pending, tx, ns, sprintVars, pillVars, critical,
                 saveVars, gainDays, popover, editorVars, call, countVars,
                 statsTimeout, savePut, run>>

\* The timeout of debouncedStatsUpdate fires (lines 743-753); the history
\* run counts the call of updateAllStatsTransaction.
statsTimeoutFires ==
  LET wordsGained == Max(0, words - lastSyncedWords) IN
  /\ statsTimeout # NULL
  /\ clock >= Val(statsTimeout)
  /\ statsTimeout' = NULL
  /\ statsTimer' = FALSE
  /\ IF wordsGained > 0
     THEN /\ lastSyncedWords' = words
          /\ StatsCall(wordsGained)
          /\ run' = [run EXCEPT !.runCalls = @ + 1, !.raiseCalls = @ + 1]
     ELSE UNCHANGED <<lastSyncedWords, pending, run>>
  /\ UNCHANGED <<now, clock, words, peakWordCount, typing, storeVars, tx, ns, sprintVars,
                 pillVars, critical, saveVars, gainDays, popover, editorVars, call, countVars,
                 startTimestamp, burstTimer, savePut>>

\* The save() that throttledSave awaits returns (lines 842-844, 865-873):
\* the text is stored, lastSavedAt set, the toast shown when it is due, and
\* saveInProgress cleared; ok: the put succeeded (storage.set returns false
\* when it failed, which save does not read).
saveReturns(ok) ==
  /\ savePut # NULL
  /\ StoreIdle
  /\ saved' = IF ok THEN savePut ELSE saved
  /\ lastSavedAt' = clock
  /\ IF clock - lastToastAt > TOAST_INTERVAL_MS
     THEN /\ nToasts' = IF nToasts < MaxToasts THEN nToasts + 1 ELSE nToasts
          /\ lastToastAt' = clock
     ELSE UNCHANGED <<nToasts, lastToastAt>>
  /\ savePut' = NULL
  /\ UNCHANGED <<now, clock, appVars, storeVars, pending, tx, ns, sprintVars, pillVars,
                 critical, gainDays, popover, editorVars, call, countVars,
                 startTimestamp, burstTimer, statsTimeout, run>>

\* ------------------------------------- start() and reset(), by statement
\* The statements of start() and reset() in the order of the source, for
\* what holds between them.  A call runs to its end before any other
\* handler or callback: while call is not NULL the specification takes
\* only the next step of the call.

\* The fields of the sprint state other than the countdown.
Fields(s) == <<s.status, s.startWords, s.durationMs, s.wordsGained>>

\* start(), lines 345-353: the state fields are assigned and the pill drawn
\* as running; the countdown of the sprint before is still in state.tock.
startSetState(minutes, currentWordCount) ==
  /\ call = NULL
  /\ state' = [state EXCEPT !.status = "running",
                            !.startWords = currentWordCount,
                            !.durationMs = Max(1, minutes) * MsPerMinute,
                            !.wordsGained = 0]
  /\ pillFinished' = FALSE
  /\ call' = Some([op |-> "start", pc |-> "kill"])
  /\ UNCHANGED <<now, appVars, storeVars, pending, tx, ns, regs, critical, saveVars,
                 gainDays, popover, editorVars, timeVars, countVars, strays, nShown>>

\* startKillPrior dropping the prior countdown without stopping it.
startDropsPrior ==
  /\ call = Some([op |-> "start", pc |-> "kill"])
  /\ state' = [state EXCEPT !.tock = NULL]
  /\ strays' = strays + Running(state.tock)
  /\ call' = Some([op |-> "start", pc |-> "create"])
  /\ UNCHANGED <<now, appVars, storeVars, pending, tx, ns, regs, critical, saveVars,
                 gainDays, popover, editorVars, timeVars, countVars, pillFinished, nShown>>

\* start(), lines 355-359: "Kill any prior timer".
startKillPrior ==
  /\ call = Some([op |-> "start", pc |-> "kill"])
  /\ state' = [state EXCEPT !.tock = NULL]
  /\ strays' = strays + Running(stop(state.tock))
  /\ call' = Some([op |-> "start", pc |-> "create"])
  /\ UNCHANGED <<now, appVars, storeVars, pending, tx, ns, regs, critical, saveVars,
                 gainDays, popover, editorVars, timeVars, countVars, pillFinished, nShown>>

\* start(), lines 361-404: the new countdown is created and started.
startCreate ==
  /\ call = Some([op |-> "start", pc |-> "create"])
  /\ state' = [state EXCEPT !.tock = Tock(state.durationMs)]
  /\ call' = NULL
  /\ UNCHANGED <<now, appVars, storeVars, pending, tx, ns, regs, critical, saveVars,
                 gainDays, popover, editorVars, timeVars, countVars, pillVars>>

\* reset(), lines 457-461: the countdown is stopped and dropped.
resetStop ==
  /\ call = NULL
  /\ state' = [state EXCEPT !.tock = NULL]
  /\ strays' = strays + Running(stop(state.tock))
  /\ call' = Some([op |-> "reset", pc |-> "fields"])
  /\ UNCHANGED <<now, appVars, storeVars, pending, tx, ns, regs, critical, saveVars,
                 gainDays, popover, editorVars, timeVars, countVars, pillFinished, nShown>>

\* reset(), lines 463-479: the state fields are cleared and the pill redrawn.
resetFields ==
  /\ call = Some([op |-> "reset", pc |-> "fields"])
  /\ state' = [state EXCEPT !.status = "idle",
                            !.durationMs = 0,
                            !.startWords = 0,
                            !.wordsGained = 0]
  /\ pillFinished' = FALSE
  /\ call' = NULL
  /\ UNCHANGED <<now, appVars, storeVars, pending, tx, ns, regs, critical, saveVars,
                 gainDays, popover, editorVars, timeVars, countVars, strays, nShown>>

\* end(userCancelled) with nothing to register: it goes on to this.reset().
endReset(userCancelled) ==
  /\ userCancelled \/ Max(0, words - state.startWords) = 0
  /\ resetStop

\* ---------------------------------------------------------- specification
Next ==
  \/ DayPasses
  \/ pillClick
  \/ \E key \in {"Enter", "Escape"} : pillKeydown(key)
  \/ \E option \in Options : popoverClick(option)
  \/ documentClick
  \/ \E w \in 0 .. MaxWords : importFileHandler(w)
  \/ ClockSetBack
  \/ \E w \in 0 .. MaxWords : Input(w)
  \/ BurstEnd
  \/ debouncedStatsUpdate
  \/ TxBegin
  \/ TxGetFail
  \/ TxCommit
  \/ TxFail
  \/ ResetStreak
  \/ NewSessionClick
  \/ NewSessionDeclined
  \/ NsSetSession
  \/ NsSetTyping
  \/ \E m \in SprintMinutes : start(m, words)
  \/ Tick
  \/ complete
  \/ pause
  \/ resume
  \/ Reset
  \/ \E c \in BOOLEAN : end(c)
  \/ \E i \in 1 .. Len(regs) : RegGet(i)
  \/ \E i \in 1 .. Len(regs) : RegSet(i)
  \/ FlashEnd
  \/ Load
  \/ \E showToast \in BOOLEAN : save(showToast)
  \/ throttledSave
  \/ TxCommitLogged
  \/ CountText
  \/ \E m \in SprintMinutes : startSetState(m, words)
  \/ startKillPrior
  \/ startCreate
  \/ resetStop
  \/ resetFields
  \/ \E c \in BOOLEAN : endReset(c)
  \/ \E step \in {DebounceStep, BurstStep, SaveStep} : TimePasses(step)
  \/ \E w \in 0 .. MaxWords : inputEvent(w)
  \/ burstTimerFires
  \/ statsTimeoutFires
  \/ \E ok \in BOOLEAN : saveReturns(ok)

Spec == Init /\ [][Next]_vars

\* The stats ledger over several local days: the clock, the editor, the
\* stats transaction and the streak reset.
NextLedger ==
  \/ DayPasses
  \/ ClockSetBack
  \/ \E w \in 0 .. MaxWords : Input(w)
  \/ debouncedStatsUpdate
  \/ TxBegin
  \/ TxGetFail
  \/ TxCommit
  \/ TxFail
  \/ ResetStreak

SpecLedger == Init /\ [][NextLedger]_vars

\* Day rollover of the session record over a shorter calendar: the days
\* pass, the text only grows, typing bursts are timed and sprint results are
\* registered (sprintManager.end on the idle manager).
NextRollover ==
  \/ DayPassesUntil(LastDay - 1)
  \/ \E w \in 0 .. MaxWords : w > words /\ Input(w)
  \/ BurstEnd
  \/ debouncedStatsUpdate
  \/ TxBegin
  \/ TxGetFail
  \/ TxCommit
  \/ TxFail
  \/ \E c \in BOOLEAN : end(c)
  \/ \E i \in 1 .. Len(regs) : RegGet(i)
  \/ \E i \in 1 .. Len(regs) : RegSet(i)

SpecRollover == Init /\ [][NextRollover]_vars

\* The writers and readers of the store on one local day: the stats
\* transaction, the streak reset, the new session and the sprint registration,
\* with an editor of MaxWords - 2 words.
NextWriters ==
  \/ \E w \in 0 .. MaxWords - 2 : Input(w)
  \/ debouncedStatsUpdate
  \/ TxBegin
  \/ TxGetFail
  \/ TxCommit
  \/ TxFail
  \/ ResetStreak
  \/ NewSessionClick
  \/ NewSessionDeclined
  \/ NsSetSession
  \/ NsSetTyping
  \/ \E c \in BOOLEAN : end(c)
  \/ \E i \in 1 .. Len(regs) : RegGet(i)
  \/ \E i \in 1 .. Len(regs) : RegSet(i)

SpecWriters == Init /\ [][NextWriters]_vars

\* The sprint manager with the ledger, on one local day, with a smaller
\* editor and with no new session and no streak reset.
NextSprint ==
  \/ \E w \in 0 .. MaxWords - 1 : Input(w)
  \/ debouncedStatsUpdate
  \/ TxBegin
  \/ TxGetFail
  \/ TxCommit
  \/ TxFail
  \/ \E m \in SprintMinutes : start(m, words)
  \/ Tick
  \/ complete
  \/ pause
  \/ resume
  \/ Reset
  \/ \E c \in BOOLEAN : end(c)
  \/ \E i \in 1 .. Len(regs) : RegGet(i)
  \/ \E i \in 1 .. Len(regs) : RegSet(i)

SpecSprint == Init /\ [][NextSprint]_vars

\* Sprints that only ever end by cancellation: no countdown reaches zero and
\* sprintManager.end is called with userCancelled = true.
NextCancel ==
  \/ \E w \in 0 .. MaxWords : Input(w)
  \/ debouncedStatsUpdate
  \/ TxBegin
  \/ TxGetFail
  \/ TxCommit
  \/ TxFail
  \/ \E m \in SprintMinutes : start(m, words)
  \/ Tick
  \/ pause
  \/ resume
  \/ Reset
  \/ end(TRUE)

SpecCancel == Init /\ [][NextCancel]_vars

\* The sprint manager as the sprint pill drives it: a sprint is started only
\* from idle or finished, and ends by its countdown or by Reset.
NextPause ==
  \/ \E w \in 0 .. MaxWords - 1 : Input(w)
  \/ debouncedStatsUpdate
  \/ TxBegin
  \/ TxCommit
  \/ \E m \in SprintMinutes :
       state.status \in {"idle", "finished"} /\ start(m, words)
  \/ Tick
  \/ complete
  \/ pause
  \/ resume
  \/ Reset
  \/ \E i \in 1 .. Len(regs) : RegGet(i)
  \/ \E i \in 1 .. Len(regs) : RegSet(i)
  \/ FlashEnd

SpecPause == Init /\ [][NextPause]_vars

\* The typing time over the days: the clock, the editor, the burst timer, the
\* stats transaction and the app being closed and opened again.
NextTyping ==
  \/ DayPasses
  \/ \E w \in 0 .. MaxWords : Input(w)
  \/ BurstEnd
  \/ debouncedStatsUpdate
  \/ TxBegin
  \/ TxCommit
  \/ Load

SpecTyping == Init /\ [][NextTyping]_vars

\* Saving the text: the clock, the editor with its autosave, the burst
\* timer, the save button and the app being closed and opened again.
NextSave ==
  \/ DayPasses
  \/ \E w \in 0 .. MaxWords : Input(w)
  \/ BurstEnd
  \/ \E showToast \in BOOLEAN : save(showToast)
  \/ throttledSave
  \/ Load

SpecSave == Init /\ [][NextSave]_vars

\* Text that comes into the editor without being typed: the editor, the
\* stats update and its transaction, the import of a file and the app being
\* closed and opened again over the saved text.
NextImport ==
  \/ \E w \in 0 .. MaxWords : Input(w)
  \/ debouncedStatsUpdate
  \/ TxBegin
  \/ TxCommit
  \/ \E w \in 0 .. MaxWords : importFileHandler(w)
  \/ Load

SpecImport == Init /\ [][NextImport]_vars

\* The sprint pill and its popover as the user works them, with the editor,
\* the stats transaction, the countdown and the registration of the results.
NextPill ==
  \/ \E w \in 0 .. MaxWords - 1 : Input(w)
  \/ debouncedStatsUpdate
  \/ TxBegin
  \/ TxCommit
  \/ pillClick
  \/ \E key \in {"Enter", "Escape"} : pillKeydown(key)
  \/ \E option \in Options : popoverClick(option)
  \/ documentClick
  \/ Tick
  \/ complete
  \/ \E i \in 1 .. Len(regs) : RegGet(i)
  \/ \E i \in 1 .. Len(regs) : RegSet(i)
  \/ FlashEnd

SpecPill == Init /\ [][NextPill]_vars

\* The streak under a clock that is never set back and with no streak reset:
\* the days pass, words are typed, and the stats transaction commits or
\* fails, the days of the committed gains being recorded.
NextStreakDays ==
  \/ DayPasses
  \/ \E w \in 0 .. MaxWords : Input(w)
  \/ debouncedStatsUpdate
  \/ TxBegin
  \/ TxGetFail
  \/ TxCommitLogged
  \/ TxFail

SpecStreak == Init /\ [][NextStreakDays]_vars

\* The sprint manager with start() and reset() taken statement by statement:
\* words are typed and sprints started, paused, resumed, replaced, reset,
\* ended and completed, each handler and callback running between the calls.
NextSteps ==
  \/ \E m \in SprintMinutes : startSetState(m, words)
  \/ startKillPrior
  \/ startCreate
  \/ resetStop
  \/ resetFields
  \/ \E c \in BOOLEAN : endReset(c)
  \/ call = NULL /\ \E w \in 0 .. MaxWords - 1 : Input(w)
  \/ call = NULL /\ Tick
  \/ call = NULL /\ complete
  \/ call = NULL /\ pause
  \/ call = NULL /\ resume
  \/ call = NULL /\ \E i \in 1 .. Len(regs) : RegGet(i)

SpecSteps == Init /\ [][NextSteps]_vars

\* The timed editor with the clock advancing by BurstStep: keystrokes, the
\* burst timer, the stats timeout and the autosave.
NextBurst ==
  \/ TimePasses(BurstStep)
  \/ \E w \in 0 .. MaxWords : inputEvent(w)
  \/ burstTimerFires
  \/ statsTimeoutFires
  \/ \E ok \in BOOLEAN : saveReturns(ok)

SpecBurst == Init /\ [][NextBurst]_vars

\* The timed editor with the clock advancing by DebounceStep: input events
\* a few milliseconds apart, the stats timeout and the autosave (the burst
\* timer is not due within this time).
NextDebounce ==
  \/ TimePasses(DebounceStep)
  \/ \E w \in 0 .. MaxWords : inputEvent(w)
  \/ statsTimeoutFires
  \/ \E ok \in BOOLEAN : saveReturns(ok)

SpecDebounce == Init /\ [][NextDebounce]_vars

\* The timed editor with the clock advancing by SaveStep or BurstStep and a
\* store that takes every put: input events within and beyond the autosave
\* interval, the save in progress returning, and the timers.
NextAutosave ==
  \/ TimePasses(SaveStep)
  \/ TimePasses(BurstStep)
  \/ \E w \in 0 .. MaxWords : inputEvent(w)
  \/ burstTimerFires
  \/ statsTimeoutFires
  \/ saveReturns(TRUE)

SpecAutosave == Init /\ [][NextAutosave]_vars

\* The editor holds any text of up to MaxText characters.
InitText ==
  /\ InitState
  /\ text \in Texts
  /\ counted = NULL

NextCount == CountText

SpecCount == InitText /\ [][NextCount]_vars

\* ------------------------------------------------------------ properties
\* The streak count and record as updateStreakUI shows them: those of the
\* stored record, or 0 when none is stored.
Count(streak) == IF streak = NULL THEN 0 ELSE Val(streak).count
Record(streak) == IF streak = NULL THEN 0 ELSE Val(streak).record

\* The words stored for the day of todayStamp: 0 when the record is absent
\* or of another day.
SameDayWords(todayStamp) ==
  IF sessionStats = NULL THEN 0
  ELSE IF Val(sessionStats).date # todayStamp THEN 0
  ELSE Val(sessionStats).words

\* C1: once the stored streak's lastDate is the local day of a call of
\* updateAllStatsTransaction with a word gain, the transaction of that call
\* commits with the streak record (count, record, lastDate) unchanged,
\* whatever other calls are queued or have committed around it.
C1_SameDayCreditedOnce ==
  [][(/\ TxCommit
      /\ Val(tx).wordsGained > 0
      /\ streakData # NULL
      /\ Count(streakData) >= 1
      /\ Val(streakData).lastDate = Val(tx).todayStamp)
     => streakData' = streakData]_vars

\* A transaction in flight on a day already credited, with another call of
\* the same day queued behind it.
C1_Witness ==
  /\ tx # NULL
  /\ streakData # NULL
  /\ Val(streakData).lastDate = Val(tx).todayStamp
  /\ Val(tx).wordsGained > 0
  /\ pending # <<>>
  /\ Head(pending).todayStamp = Val(tx).todayStamp

\* C2: every committed transaction stores the words stored for its day (0
\* for an absent or zeroed record) plus its own gain, so two gains g1, g2 of
\* one day add up to g1 + g2 in whichever order the two calls commit.
C2_WordsAdditive ==
  [][TxCommit =>
       /\ sessionStats' # NULL
       /\ Val(sessionStats').words
            = SameDayWords(Val(tx).todayStamp) + Val(tx).wordsGained]_vars

\* The second gain of a day in flight on top of the first, committed one.
C2_Witness ==
  /\ tx # NULL
  /\ SameDayWords(Val(tx).todayStamp) > 0
  /\ Val(tx).wordsGained > 0
  /\ Val(Val(tx).putSession).words
       = SameDayWords(Val(tx).todayStamp) + Val(tx).wordsGained
  /\ lastSyncedWords = Val(Val(tx).putSession).words

\* C3: a transaction that ends without its session put being stored, or a
\* call whose transaction never opens, leaves the stored StreakData and
\* SessionStats as they were and is reported by errorHandler.critical; the
\* handler goes on (the catch of updateAllStatsTransaction lets nothing out).
C3_FailureLeavesStore ==
  [][(\/ /\ tx # NULL
         /\ tx' = NULL
         /\ sessionStats' # Val(tx).putSession
      \/ /\ tx = NULL
         /\ tx' = NULL
         /\ pending # <<>>
         /\ pending' = Tail(pending))
     => /\ streakData' = streakData
        /\ sessionStats' = sessionStats
        /\ critical']_vars

\* A transaction that would put both records is in flight over a committed
\* state, after an earlier failure was reported.
C3_Witness ==
  /\ critical
  /\ tx # NULL
  /\ Val(tx).putStreak # NULL
  /\ sessionStats # NULL
  /\ streakData # NULL

C5_NextDayContinues ==
  [][(/\ TxCommit
      /\ Val(tx).wordsGained > 0
      /\ streakData # NULL
      /\ Val(streakData).lastDate \in Stamps
      /\ DayOf(Val(tx).todayStamp) = DayOf(Val(streakData).lastDate) + 1)
     => /\ streakData' # NULL
        /\ Count(streakData') = Count(streakData) + 1
        /\ Val(streakData').lastDate = Val(tx).todayStamp]_vars

\* The gain of 2024-03-01 in flight on a streak of two days ending 2024-02-29.
C5_Witness ==
  /\ tx # NULL
  /\ streakData # NULL
  /\ Count(streakData) = 2
  /\ Val(streakData).lastDate = <<2024, 2, 29>>
  /\ Val(tx).todayStamp = <<2024, 3, 1>>
  /\ Val(tx).putStreak # NULL
  /\ Count(Val(tx).putStreak) = 3

\* No lastDate is stored, or the local day of the call is two or more days
\* after it, or before it.
StreakBroken(todayStamp) ==
  IF streakData = NULL THEN TRUE
  ELSE IF Val(streakData).lastDate \notin Stamps THEN TRUE
  ELSE LET gap == DayOf(todayStamp) - DayOf(Val(streakData).lastDate)
       IN  gap >= 2 \/ gap < 0

\* C6: a word gain committed with no prior lastDate, or two or more days
\* after it, or on a day before it, stores count 1 and its day as lastDate.
C6_BrokenStreakRestarts ==
  [][(TxCommit /\ Val(tx).wordsGained > 0 /\ StreakBroken(Val(tx).todayStamp))
     => /\ streakData' # NULL
        /\ Count(streakData') = 1
        /\ Val(streakData').lastDate = Val(tx).todayStamp]_vars

\* A gain in flight on a day before the lastDate of a streak of two days.
C6_Witness ==
  /\ tx # NULL
  /\ streakData # NULL
  /\ Count(streakData) = 2
  /\ DayOf(Val(tx).todayStamp) < DayOf(Val(streakData).lastDate)
  /\ Val(tx).putStreak # NULL
  /\ Count(Val(tx).putStreak) = 1

\* C7: a transaction that commits over a stored session record of another
\* day stores date = today, words = its gain, sprints = 0, bestSprint = 0 and
\* the minutes of the stored typing time: nothing of the stale record is kept.
C7_StaleRecordReplaced ==
  [][(/\ TxCommit
      /\ sessionStats # NULL
      /\ Val(sessionStats).date # Val(tx).todayStamp)
     => sessionStats' =
          Some([date |-> Val(tx).todayStamp,
                words |-> Val(tx).wordsGained,
                minutes |-> (IF typingTime = NULL THEN 0
                             ELSE Val(typingTime).time) \div MsPerMinute,
                sprints |-> 0,
                bestSprint |-> 0])]_vars

\* A gain in flight over yesterday's record, every counter of which is set.
C7_Witness ==
  /\ tx # NULL
  /\ sessionStats # NULL
  /\ Val(sessionStats).date # Val(tx).todayStamp
  /\ Val(sessionStats).words >= 1
  /\ Val(sessionStats).minutes >= 1
  /\ Val(sessionStats).sprints >= 1
  /\ Val(sessionStats).bestSprint >= 1

\* C8: while a stats transaction is in flight the stored streak and session
\* records stay the ones it read (no other request is served, none sees its
\* puts), and when it ends either both of its puts are stored or neither.
C8_TransactionIsolated ==
  /\ [](tx # NULL => /\ streakData = Val(tx).streak
                     /\ sessionStats = Val(tx).session)
  /\ [][(tx # NULL /\ tx' = NULL)
        => \/ /\ streakData' = (IF Val(tx).putStreak = NULL THEN Val(tx).streak
                                ELSE Val(tx).putStreak)
              /\ sessionStats' = Val(tx).putSession
           \/ /\ streakData' = Val(tx).streak
              /\ sessionStats' = Val(tx).session]_vars

\* A transaction putting both records is in flight while a sprint
\* registration and a new session wait for the store.
C8_Witness ==
  /\ tx # NULL
  /\ Val(tx).putStreak # NULL
  /\ regs # <<>>
  /\ ns # NULL

\* The sprints and the best sprint of a stored record, 0 when none is stored.
Sprints(session) == IF session = NULL THEN 0 ELSE Val(session).sprints
BestSprint(session) == IF session = NULL THEN 0 ELSE Val(session).bestSprint

\* C9 as stated: when the countdown reaches zero wordsGained is
\* max(0, words - startWords), and the registration of the result leaves
\* the stored record with one sprint more and the best sprint raised to it.
C9_CompletionCounted ==
  /\ [][(state.status # "finished" /\ state'.status = "finished")
        => state'.wordsGained = Max(0, words - state.startWords)]_vars
  /\ [][(regs # <<>> /\ regs' = <<>> /\ ~regs[1].awaited)
        => /\ sessionStats' # NULL
           /\ Sprints(sessionStats') = Sprints(sessionStats) + 1
           /\ BestSprint(sessionStats')
                = Max(BestSprint(sessionStats), regs[1].wordsGained)]_vars

\* C9: when the countdown reaches zero wordsGained is max(0, words -
\* startWords) and registerSprintResult is called with it; the call writes
\* nothing when it reads no record (or its write fails), and otherwise stores
\* the record it read with one sprint more and the best sprint raised to it.
C9_CompletionRegistered ==
  /\ [][(state.status # "finished" /\ state'.status = "finished")
        => /\ state'.wordsGained = Max(0, words - state.startWords)
           /\ regs' # <<>>
           /\ regs'[Len(regs')].wordsGained = state'.wordsGained]_vars
  /\ [][(regs # <<>> /\ regs' = <<>> /\ ~regs[1].awaited)
        => IF regs[1].pc = "get" THEN sessionStats' = sessionStats
           ELSE \/ sessionStats' = sessionStats
                \/ /\ sessionStats' # NULL
                   /\ Val(sessionStats')
                        = [Val(regs[1].session) EXCEPT
                             !.sprints = Sprints(regs[1].session) + 1,
                             !.bestSprint = Max(BestSprint(regs[1].session),
                                                regs[1].wordsGained)]]_vars

\* The second completed sprint of the day is counted, its gain below the best.
C9_Witness ==
  /\ state.status = "finished"
  /\ state.wordsGained = 1
  /\ regs = <<>>
  /\ Sprints(sessionStats) = 2
  /\ BestSprint(sessionStats) = 2

\* C10: when sprints end only by reset() or end(true), no sprint result is
\* ever registered: no registration is called, the stored sprints and
\* bestSprint stay 0, and the cancelling step leaves the stored record alone.
C10_CancelDiscards ==
  /\ [](regs = <<>> /\ Sprints(sessionStats) = 0 /\ BestSprint(sessionStats) = 0)
  /\ [][(state.status \in {"running", "paused"} /\ state'.status = "idle")
        => sessionStats' = sessionStats]_vars

\* A sprint is running or paused with the word count risen above its start
\* and a session record stored.
C10_Witness ==
  /\ state.status \in {"running", "paused"}
  /\ words > state.startWords
  /\ sessionStats # NULL
  /\ Val(sessionStats).words > state.startWords

\* The time left on the countdown of sprint state s, 0 when it has none.
Left(s) == IF s.tock = NULL THEN 0 ELSE Val(s.tock).left

\* C11: pausing keeps the time left, the countdown stands still while the
\* status is paused (and runs while it is running), and every step from
\* paused to paused or to running (resume) leaves the time left and the
\* duration as they were at the pause, however many pauses came before.
C11_PauseKeepsRemaining ==
  /\ [](state.status \in {"running", "paused"}
        => /\ state.tock # NULL
           /\ Val(state.tock).go = (state.status = "running")
           /\ Left(state) <= state.durationMs)
  /\ [][(\/ state.status = "running" /\ state'.status = "paused"
         \/ state.status = "paused" /\ state'.status \in {"paused", "running"})
        => /\ state'.tock # NULL
           /\ Left(state') = Left(state)
           /\ state'.durationMs = state.durationMs]_vars

\* A sprint paused after one step of running time, with words typed since
\* its start.
C11_Witness ==
  /\ state.status = "paused"
  /\ state.durationMs > StepMinutes * MsPerMinute
  /\ Left(state) = state.durationMs - StepMinutes * MsPerMinute
  /\ words > state.startWords

\* Nothing the app does without the user is left to run: no storage request,
\* no debounce, burst or flash timeout is pending and no countdown runs.
Settled ==
  /\ regs = <<>>
  /\ pending = <<>>
  /\ tx = NULL
  /\ ns = NULL
  /\ ~statsTimer
  /\ ~typing.burst
  /\ ~pillFinished
  /\ Running(state.tock) = 0

\* C12: a sprint whose countdown has reached zero does not stay finished:
\* once everything the app does without the user has run (the registration
\* of the result, the 500 ms flash of the pill), the status is idle again.
C12_FinishedReturnsToIdle == Settled => state.status # "finished"

\* C13: no countdown runs besides the one the manager holds, so at most one
\* is active; and a step that changes the state of an active sprint and
\* leaves a sprint running (a tick, a resume, a replacing start) registers
\* nothing: the stored record, the registrations in flight and the
\* completion feedback are as before, and one countdown runs afterwards.
C13_OneCountdown ==
  /\ [](strays + Running(state.tock) <= 1 /\ strays = 0)
  /\ [][(/\ state.status \in {"running", "paused"}
         /\ state'.status = "running"
         /\ state' # state)
        => /\ sessionStats' = sessionStats
           /\ regs' = regs
           /\ nShown' = nShown
           /\ strays' = 0
           /\ Running(state'.tock) = 1]_vars

\* A running sprint, started with words in the editor, with words gained
\* since and part of its countdown elapsed: a start() here replaces it.
C13_Witness ==
  /\ state.status = "running"
  /\ Left(state) < state.durationMs
  /\ words > state.startWords
  /\ state.startWords >= 1
  /\ sessionStats # NULL

\* C14: end(false) with words gained calls registerSprintResult with the
\* gain and leaves the sprint state alone until the call returns; when the
\* call returns, whether it wrote the record, found none or failed, the
\* state is the idle state.
C14_EndLeavesIdle ==
  /\ [][(Len(regs') > Len(regs) /\ regs'[Len(regs')].awaited)
        => /\ state' = state
           /\ regs'[Len(regs')].pc = "get"
           /\ regs'[Len(regs')].wordsGained = Max(0, words - state.startWords)
           /\ regs'[Len(regs')].wordsGained > 0]_vars
  /\ [][(regs # <<>> /\ regs[1].awaited /\ regs' = <<>>)
        => /\ state' = IdleState
           /\ ~pillFinished']_vars

\* end(false) was called on a paused sprint; its registration has read the
\* record and is about to write it, or to fail.
C14_Witness ==
  /\ regs # <<>>
  /\ regs[1].awaited
  /\ regs[1].pc = "set"
  /\ state.status = "paused"

\* C15: showSprintComplete runs once in the step in which a running
\* countdown reaches zero, and in no other step: not in reset(), end() or
\* a start() that replaces a sprint.
C15_FeedbackOncePerCompletion ==
  [][LET done == /\ Running(state.tock) = 1
                 /\ state'.tock = NULL
                 /\ state'.status = "finished"
     IN  nShown' = IF done /\ nShown < MaxShown THEN nShown + 1 ELSE nShown]_vars

\* One sprint ran to zero with no words gained and showed its feedback;
\* a later sprint is paused.
C15_Witness ==
  /\ nShown = 1
  /\ Sprints(sessionStats) = 1
  /\ BestSprint(sessionStats) = 0
  /\ state.status = "paused"

\* C16: the sprint state becomes paused only from running, and running from
\* paused only by the inverse change; each changes the status and halts or
\* releases the countdown and nothing else. A paused sprint changes in no
\* other way than by being resumed or reset, and no step from idle or
\* finished leads to paused.
C16_PauseResumeGuarded ==
  [][state' # state
     => /\ state'.status = "paused"
           => /\ state.status = "running"
              /\ state.tock # NULL
              /\ state' = [state EXCEPT !.status = "paused",
                                        !.tock = Some([Val(state.tock) EXCEPT !.go = FALSE])]
        /\ state.status = "paused"
           => \/ state' = IdleState
              \/ /\ state.tock # NULL
                 /\ state' = [state EXCEPT !.status = "running",
                                           !.tock = Some([Val(state.tock) EXCEPT !.go = TRUE])]]_vars

\* A sprint completed, the next one was started from finished and is paused.
C16_Witness ==
  /\ state.status = "paused"
  /\ nShown = 1
  /\ Left(state) = state.durationMs

\* C17: a step from idle or finished to running is a start(minutes, w) with
\* w the editor's word count: it leaves startWords = w, durationMs =
\* max(1, minutes) * 60000, which is a minute at least, wordsGained = 0 and
\* a running countdown with exactly durationMs left.
C17_StartSetsSprint ==
  [][(state.status \in {"idle", "finished"} /\ state'.status = "running")
     => /\ state'.startWords = words
        /\ \E minutes \in SprintMinutes :
             state'.durationMs = Max(1, minutes) * MsPerMinute
        /\ state'.durationMs >= MsPerMinute
        /\ state'.wordsGained = 0
        /\ state'.tock = Some([left |-> state'.durationMs, go |-> TRUE])]_vars

\* A sprint started with 0 minutes from finished, with words in the editor,
\* runs for one minute.
C17_Witness ==
  /\ state.status = "running"
  /\ nShown = 1
  /\ state.durationMs = MsPerMinute
  /\ Left(state) = MsPerMinute
  /\ state.startWords >= 1

\* C18: a registerSprintResult(g) that finds no record stored returns and
\* the store still holds none. One that read a record finds, while no day
\* passes and no new session is begun, the same sprints and bestSprint
\* stored when it writes, and unless its write fails it leaves the stored
\* sprints one higher and the stored bestSprint at max(bestSprint, g).
C18_RegisterSprintResult ==
  /\ [](\A i \in 1 .. Len(regs) :
          /\ regs[i].wordsGained >= 0
          /\ regs[i].pc = "set"
             => /\ regs[i].session # NULL
                /\ sessionStats # NULL
                /\ Sprints(sessionStats) = Sprints(regs[i].session)
                /\ BestSprint(sessionStats) = BestSprint(regs[i].session))
  /\ [][(regs # <<>> /\ regs[1].pc = "get" /\ sessionStats = NULL /\ regs' # regs)
        => regs' = <<>> /\ sessionStats' = NULL]_vars
  /\ [][(regs # <<>> /\ regs[1].pc = "set" /\ regs' = <<>>)
        => \/ sessionStats' = sessionStats
           \/ /\ sessionStats' # NULL
              /\ Sprints(sessionStats') = Sprints(sessionStats) + 1
              /\ BestSprint(sessionStats')
                   = Max(BestSprint(sessionStats), regs[1].wordsGained)]_vars

\* end(false) registered a first sprint of two words; no sprint has run to
\* zero.
C18_Witness ==
  /\ regs = <<>>
  /\ nShown = 0
  /\ state.status = "idle"
  /\ Sprints(sessionStats) = 1
  /\ BestSprint(sessionStats) = 2

\* C19 as stated: registerSprintResult touches only the sprint counters:
\* whatever transactions commit between its read and its write, the step of
\* its write leaves the stored words, minutes and date as the latest
\* committed transaction left them.
C19_SprintWriteKeepsWords ==
  [][(regs # <<>> /\ regs[1].pc = "set" /\ regs' = <<>> /\ sessionStats # NULL)
     => /\ sessionStats' # NULL
        /\ Val(sessionStats').words = Val(sessionStats).words
        /\ Val(sessionStats').minutes = Val(sessionStats).minutes
        /\ Val(sessionStats').date = Val(sessionStats).date]_vars

\* C20 as stated: every step that writes the session record leaves a record
\* dated with the current local day; a write that finds a record of an
\* earlier day stored replaces it with a fresh one for today instead of
\* changing it in place.
C20_WrittenRecordIsOfToday ==
  [][(sessionStats' # sessionStats /\ sessionStats' # NULL)
     => Val(sessionStats').date = getLocalDateStamp(now')]_vars

\* The stamp of the day that the date string x of appState.typing names.
StampOf(x) == <<x[4], x[2], x[3]>>

\* C21 as stated: the minutes a committed transaction stores in the session
\* record of a day are taken from typing time of that day: when they are
\* above 0, the typing time stored is dated with the record's day.
C21_MinutesOnlyOfToday ==
  [][(tx # NULL /\ tx' = NULL /\ sessionStats' # NULL
        /\ Val(sessionStats').minutes > 0)
     => /\ typingTime # NULL
        /\ StampOf(Val(typingTime).date) = Val(sessionStats').date]_vars

C23_FailuresAreCaught ==
  /\ [][LET failed == \/ tx # NULL /\ tx' = NULL /\ sessionStats' = sessionStats
                      \/ tx = NULL /\ tx' = NULL /\ Len(pending') < Len(pending)
        IN  /\ failed => /\ critical'
                         /\ storeVars' = storeVars
                         /\ appVars' = appVars
                         /\ <<ns, regs, state>>' = <<ns, regs, state>>
                         /\ Len(pending') >= Len(pending) - 1
            /\ critical' # critical => failed]_vars
  /\ [][(ns # NULL /\ ns' # ns)
        => IF Val(ns).pc = "sessionStats"
           THEN /\ ns' = Some([Val(ns) EXCEPT !.pc = "typingTime"])
                /\ sessionStats' \in {sessionStats, Some(ZeroSession(Val(ns).todayStamp))}
           ELSE /\ ns' = NULL
                /\ typingTime' \in {typingTime, Some([date |-> typing.date, time |-> 0])}
                /\ typing'.totalTime = 0
                /\ peakWordCount' = 0
                /\ lastSyncedWords' = 0
                /\ saved' \in {saved, Some(words)}
                /\ lastSavedAt' = now]_vars
  /\ [][(regs # <<>> /\ regs' # regs /\ Len(regs') <= Len(regs))
        => /\ regs[1].pc = "get"
              => IF regs' = <<>> THEN sessionStats' = sessionStats
                 ELSE sessionStats # NULL /\ regs'[1].session = sessionStats
           /\ regs[1].pc = "set" => regs' = <<>>
           /\ (regs' = <<>> /\ regs[1].awaited) => state' = IdleState]_vars

\* A stats transaction failed, and a new session whose two writes failed has
\* run to its end and reset its counters with words already counted.
C23_Witness ==
  /\ critical
  /\ nSessions = 1
  /\ ns = NULL
  /\ sessionStats = NULL
  /\ typingTime = NULL
  /\ pending = <<>>
  /\ tx = NULL
  /\ words = 0
  /\ peakWordCount = 0

\* C24 as stated: save() records lastSavedAt and shows the saved toast only
\* for a write that succeeded: after a step that sets lastSavedAt or shows
\* the toast, the stored text is the editor's.
C24_SavedOnlyOnSuccess ==
  [][((lastSavedAt' # lastSavedAt /\ lastSavedAt' # 0) \/ nToasts' # nToasts)
     => saved' = Some(words')]_vars

\* C25 as stated: words added while the sprint is paused are not part of its
\* result: the gain that completion would register, max(0, words -
\* startWords), does not change while the sprint stays paused.
C25_PausedWordsNotCounted ==
  [][(state.status = "paused" /\ state'.status = "paused")
     => Max(0, words' - state'.startWords) = Max(0, words - state.startWords)]_vars

\* C25: the result of a sprint is the net gain since its start, paused time
\* included: startWords stays what start() set it to while the sprint is
\* running or paused, whatever is typed, and at zero the gain registered is
\* max(0, words - startWords).
C25_ResultIsNetSinceStart ==
  /\ [][(state.status \in {"running", "paused"} /\ state'.status \in {"running", "paused"})
        => state'.startWords = state.startWords]_vars
  /\ [][(state.status = "running" /\ state'.status = "finished")
        => /\ regs' # <<>>
           /\ regs'[Len(regs')].wordsGained = Max(0, words - state.startWords)
           /\ ~regs'[Len(regs')].awaited]_vars

\* A sprint started on an empty editor has finished with all the words the
\* editor can hold as its gain, and its registration is in flight.
C25_Witness ==
  /\ state.status = "finished"
  /\ state.startWords = 0
  /\ state.wordsGained = MaxWords - 1
  /\ regs # <<>>
  /\ ~regs[1].awaited

\* The length of the longest run of consecutive days ending at day d, each
\* in the set of days ds (0 when d is not in ds).
RECURSIVE RunEndingAt(_, _)
RunEndingAt(ds, d) == IF d \in ds THEN 1 + RunEndingAt(ds, d - 1) ELSE 0

\* C26: while the clock is never set back and the streak never reset, the
\* stored streak, once there is one, has the day of the latest committed gain
\* as lastDate and as count the length of the run of consecutive days with
\* a committed gain that ends there; and there is none stored before the
\* first gain is committed.
C26_CountIsRunLength ==
  IF streakData = NULL THEN gainDays = {}
  ELSE /\ Val(streakData).lastDate \in Stamps
       /\ \A d \in gainDays : d <= DayOf(Val(streakData).lastDate)
       /\ Count(streakData) = RunEndingAt(gainDays, DayOf(Val(streakData).lastDate))

\* Gains were committed on the first two days and a streak of two is stored.
C26_Witness ==
  /\ streakData # NULL
  /\ gainDays = {FirstDay, FirstDay + 1}
  /\ Count(streakData) = 2
  /\ Val(streakData).lastDate = getLocalDateStamp(FirstDay + 1)
  /\ tx = NULL

\* The characters the word counter is to separate words at.
Separators == {"space", "tab", "newline", "emdash"}

\* The number of maximal runs of non-separator characters in t.
RECURSIVE Runs(_)
Runs(t) ==
  IF t = <<>> THEN 0
  ELSE IF Head(t) \in Separators THEN Runs(Tail(t))
  ELSE 1 + Runs(DropWhile(t, Chars \ Separators))

\* C27: countWords returns the number of maximal runs of non-separator
\* characters of the text, the separators being space, tab, newline and the
\* em dash (and so 0 for an empty text or one of separators only).
C27_CountsRuns == counted # NULL => Val(counted) = Runs(text)

\* C28: the steps of a confirmed new session leave the stored streak as it
\* is; the first put stores the zeroed session record of the day of the
\* click, the second a typing time of 0 (each put may fail and then leaves
\* its record as it was), and the handler then sets the typing total,
\* peakWordCount and lastSyncedWords to 0; the click itself clears the
\* editor and writes nothing.  (A declined confirmation is a step that
\* changes no variable.)
C28_NewSessionResets ==
  [][LET click == ns = NULL /\ ns' # NULL
         setSession == ns # NULL /\ Val(ns).pc = "sessionStats" /\ ns' # ns
         setTyping == ns # NULL /\ Val(ns).pc = "typingTime" /\ ns' # ns
     IN  /\ (click \/ setSession \/ setTyping) => streakData' = streakData
         /\ click => /\ words' = 0
                     /\ Val(ns').todayStamp = getLocalDateStamp(now)
                     /\ UNCHANGED <<sessionStats, typingTime>>
         /\ setSession => /\ sessionStats' \in {Some(ZeroSession(Val(ns).todayStamp)),
                                                sessionStats}
                          /\ UNCHANGED <<typingTime, peakWordCount, lastSyncedWords>>
         /\ setTyping => /\ typingTime' \in {Some([date |-> typing.date, time |-> 0]),
                                              typingTime}
                         /\ sessionStats' = sessionStats
                         /\ typing'.totalTime = 0
                         /\ peakWordCount' = 0
                         /\ lastSyncedWords' = 0
                         /\ ns' = NULL]_vars

\* A new session has ended after a word gain was committed: the streak of
\* that gain is still stored, the session record is the zeroed one of today
\* and the typing time stored is 0.
C28_Witness ==
  /\ nSessions = 1
  /\ ns = NULL
  /\ tx = NULL
  /\ pending = <<>>
  /\ Count(streakData) = 1
  /\ sessionStats = Some(ZeroSession(getLocalDateStamp(now)))
  /\ typingTime = Some([date |-> typing.date, time |-> 0])
  /\ peakWordCount = 0
  /\ lastSyncedWords = 0

\* C29: the stamp taken at the call of updateAllStatsTransaction is the one
\* both puts carry: when a transaction with a word gain commits, the date of
\* the session record and the lastDate of the streak are that stamp,
\* whatever the local day has become in the meantime.
C29_OneStampPerTransaction ==
  [][(tx # NULL /\ tx' = NULL /\ Val(tx).wordsGained > 0 /\ sessionStats' # sessionStats)
     => /\ sessionStats' # NULL
        /\ Val(sessionStats').date = Val(tx).todayStamp
        /\ streakData' # NULL
        /\ Val(streakData').lastDate = Val(tx).todayStamp]_vars

\* A transaction called on the first day has committed and the local day is
\* the next one: both records carry the stamp of the first day.
C29_Witness ==
  /\ tx = NULL
  /\ pending = <<>>
  /\ now = FirstDay + 1
  /\ sessionStats # NULL
  /\ Val(sessionStats).date = getLocalDateStamp(FirstDay)
  /\ Val(sessionStats).words = words
  /\ words > 0
  /\ streakData # NULL
  /\ Val(streakData).lastDate = getLocalDateStamp(FirstDay)

\* C30 as stated: no countdown runs outside the manager, and whenever a step
\* of start() or reset() changes a field of the sprint state other than the
\* countdown, the countdown of the sprint before is no longer running.
C30_StopsBeforeAnyMutation ==
  /\ [](strays = 0)
  /\ [][(call' # call /\ Fields(state') # Fields(state))
        => Running(state.tock) = 0]_vars

\* C30: reset() (and end(), by it) stops and drops the countdown before it
\* changes any other field; a replacing start() assigns its fields first and
\* then, before it creates the new countdown and before anything else runs,
\* stops and drops the one before; no countdown is ever left running outside
\* the manager, so none that was cancelled ticks or completes afterwards;
\* and the call returns with the new countdown, or idle with none.
C30_CancelledNeverRuns ==
  /\ [](strays = 0)
  /\ [](call = Some([op |-> "start", pc |-> "create"]) => state.tock = NULL)
  /\ [][(call # NULL /\ Val(call).op = "reset" /\ Fields(state') # Fields(state))
        => state.tock = NULL]_vars
  /\ [][(call # NULL /\ call' = NULL)
        => IF Val(call).op = "start"
           THEN state'.status = "running" /\ state'.tock = Tock(state'.durationMs)
           ELSE state' = IdleState]_vars

\* A replacing start() has assigned its fields and is about to stop the
\* countdown of the sprint before, which is still running with more time
\* left than the new sprint lasts.
C30_Witness ==
  /\ call = Some([op |-> "start", pc |-> "kill"])
  /\ Running(state.tock) = 1
  /\ Val(state.tock).left > state.durationMs

\* C31: an input event records the burst start when there is none, keeps it
\* when there is one, and sets the one burst timer to fire
\* TYPING_BURST_THRESHOLD_MS later, the total unchanged; the timer fires only
\* that long after the last input event, and then adds the time since the
\* burst start to totalTime, clears the start and puts {date, time:
\* totalTime} (or the put fails); no other step changes start or total.
C31_BurstTimed ==
  [][LET input == run'.inputs = run.inputs + 1
         fires == burstTimer # NULL /\ burstTimer' = NULL
     IN  /\ input
            => /\ startTimestamp' = IF startTimestamp = NULL THEN Some(clock)
                                    ELSE startTimestamp
               /\ burstTimer' = Some(clock + TYPING_BURST_THRESHOLD_MS)
               /\ typing'.totalTime = typing.totalTime
         /\ fires
            => /\ startTimestamp # NULL
               /\ clock - Val(run.lastInputAt) >= TYPING_BURST_THRESHOLD_MS
               /\ typing'.totalTime = typing.totalTime + (clock - Val(startTimestamp))
               /\ startTimestamp' = NULL
               /\ typingTime' \in {Some([date |-> typing.date,
                                         time |-> typing'.totalTime]), typingTime}
         /\ ~input /\ ~fires
            => UNCHANGED <<startTimestamp, burstTimer>>
               /\ typing'.totalTime = typing.totalTime]_vars

\* A burst of two input events, BurstStep apart, has ended: its time, from
\* the first event to the firing of the timer, is the total and is stored.
C31_Witness ==
  /\ run.inputs = 2
  /\ startTimestamp = NULL
  /\ burstTimer = NULL
  /\ typing.totalTime = BurstStep + TYPING_BURST_THRESHOLD_MS
  /\ typingTime = Some([date |-> typing.date, time |-> typing.totalTime])

\* C32 as stated: in a run of input events less than DebounceMs apart at
\* most one call of updateAllStatsTransaction is made, and after the last
\* event of the run (no event of the run follows a call of the run); the
\* call passes the net gain since the last synced count.
C32_OneCallPerRun ==
  /\ [](run.runCalls <= 1)
  /\ [][(/\ run'.inputs = run.inputs + 1
         /\ run.lastInputAt # NULL
         /\ clock - Val(run.lastInputAt) < DebounceMs)
        => run.runCalls = 0]_vars
  /\ [][Len(pending') = Len(pending) + 1
        => pending'[Len(pending')].wordsGained = words - lastSyncedWords]_vars

\* C32: in a run of input events that raise the peak word count and are less
\* than DebounceMs apart at most one call of updateAllStatsTransaction is
\* made, and after the last of them; it is made DebounceMs or more after
\* that event, passes the net gain since the last synced count, which is
\* positive, and moves the synced count to the current one.
C32_OneCallPerRaisingRun ==
  /\ [](run.raiseCalls <= 1)
  /\ [][(/\ run'.inputs = run.inputs + 1
         /\ peakWordCount' > peakWordCount
         /\ run.lastRaiseAt # NULL
         /\ clock - Val(run.lastRaiseAt) < DebounceMs)
        => run.raiseCalls = 0]_vars
  /\ [][Len(pending') = Len(pending) + 1
        => /\ pending'[Len(pending')].wordsGained = words - lastSyncedWords
           /\ words > lastSyncedWords
           /\ lastSyncedWords' = words
           /\ clock - Val(run.lastRaiseAt) >= DebounceMs]_vars

\* Two input events DebounceStep apart have raised the peak to two words and
\* one call has followed them, with the gain of both.
C32_Witness ==
  /\ run.inputs = 2
  /\ run.lastRaiseAt = Some(StartTime + DebounceStep)
  /\ run.raiseCalls = 1
  /\ Len(pending) = 1
  /\ pending[1].wordsGained = 2
  /\ words = 2
  /\ lastSyncedWords = 2

\* Everything the input handler has started has run: no save is in progress
\* and no timer is pending, so nothing more happens without an input event.
EditorSettled ==
  /\ run.inputs > 0
  /\ savePut = NULL
  /\ burstTimer = NULL
  /\ statsTimeout = NULL

\* C33: once the editor has settled after the last input event, the saved
\* text is the text of the editor (here, by its word count).
C33_LatestEditSaved == EditorSettled => saved = Some(words)

\* C34: a sprint result is registered only for a sprint that was started
\* and has not ended: registerSprintResult is called only in a step taken
\* while the status is running or paused, and never by end() in idle or
\* finished; so a sprint that was never started, or has completed, is not
\* registered (again).
C34_RegisteredOnlyIfStarted ==
  [][Len(regs') > Len(regs) => state.status \in {"running", "paused"}]_vars


\* C35: a word gain is not lost to a failed stats transaction: whenever no
\* call of updateAllStatsTransaction is queued or in flight, the words the
\* handler has synced (lastSyncedWords, 0 at load here) are the words
\* committed to today's SessionStats record, so that a gain whose transaction
\* failed is still ahead of lastSyncedWords and is credited by a later update.
C35_SyncedIsCommitted ==
  (pending = <<>> /\ tx = NULL)
    => lastSyncedWords = SameDayWords(getLocalDateStamp(now))


\* C36: outside the load and the new-session reset, lastSyncedWords never
\* decreases, and it changes only in a step that passes exactly the increase
\* to updateAllStatsTransaction; every delta passed is such an increase.  So
\* the deltas passed since the load add up to lastSyncedWords minus its value
\* at the load, and words deleted and typed again are not credited twice.
C36_DeltasAreIncreases ==
  [][(nLoads' = nLoads /\ ns = NULL) =>
       /\ lastSyncedWords' >= lastSyncedWords
       /\ IF Len(pending') > Len(pending)
          THEN /\ pending' = Append(pending, pending'[Len(pending')])
               /\ pending'[Len(pending')].wordsGained
                    = lastSyncedWords' - lastSyncedWords
          ELSE lastSyncedWords' = lastSyncedWords]_vars

\* After a load a gain has been passed and is queued, and words have been
\* deleted since: the text is below the synced count and the peak.
C36_Witness ==
  /\ nLoads = 1
  /\ pending # <<>>
  /\ pending[Len(pending)].wordsGained > 0
  /\ words < lastSyncedWords
  /\ peakWordCount = lastSyncedWords


\* C37: text placed in the editor by loadState or by importFileHandler is not
\* credited as words gained: when either has returned, the gain that the next
\* stats update would pass to updateAllStatsTransaction, max(0, count -
\* lastSyncedWords), is no more than the gain that was typed and still
\* uncredited before.
C37_PlacedTextNotCredited ==
  [][(Load \/ \E w \in 0 .. MaxWords : importFileHandler(w))
       => Max(0, words' - lastSyncedWords') <= Max(0, words - lastSyncedWords)]_vars


\* C38: between the operations of the sprint manager and the callbacks of its
\* countdown, state.tock is set exactly when the status is running or paused,
\* and in idle and finished no countdown is left that could tick or complete
\* (neither state.tock nor one that start() has replaced).
C38_TockIffActive ==
  /\ (state.tock # NULL) <=> (state.status \in {"running", "paused"})
  /\ state.status \in {"idle", "finished"} => strays = 0

\* A sprint has completed by its countdown: finished, and the countdown gone.
C38_Witness ==
  /\ state.status = "finished"
  /\ state.tock = NULL
  /\ nShown > 0
  /\ strays = 0


\* C39: in every reachable state the user has a way on towards a new sprint
\* with the sprint pill and its popover: in each status (idle, running,
\* paused, finished) some click or key on the pill or the popover changes the
\* sprint state or the popover; in particular after a sprint has completed
\* by its countdown.  (Where none does, no sequence of them starts a sprint.)
C39_UserCanGoOn ==
  ENABLED <<UserAction>>_<<state, popover>>

====
